---- MODULE Spec2Model ----
(***************************************************************************)
(* Verification model of the OAuth helpers of the sign-in repository:      *)
(*   - classify_oauth_url   (src/utils/oauth_helpers.py)                   *)
(*   - retry_async_operation (src/utils/oauth_helpers.py)                  *)
(* Strings are sequences of one-character strings, so that lower(),        *)
(* strip() and the substring test `in` are computed the way Python         *)
(* computes them.                                                          *)
(***************************************************************************)
EXTENDS Integers, Sequences, FiniteSets, TLC

VARIABLES
    c_url,            \* classify_oauth_url: argument url
    c_target,         \* classify_oauth_url: argument target_domain
    c_result,         \* classify_oauth_url: returned value ("pending" before the call)
    c_auth,           \* is_authorization_url(c_url): returned value
    c_related,        \* is_oauth_related_url(c_url): returned value
    r_cfg,            \* retry_async_operation: its arguments
    r_pc,             \* retry_async_operation: position in the function
    r_attempt,        \* retry_async_operation: loop variable attempt
    r_trace,          \* the operation() invocations and asyncio.sleep calls so far, in order
    r_last_exception, \* retry_async_operation: local last_exception
    r_outcome,        \* how retry_async_operation ended
    d_pc,             \* async_retry wrapper: position in the function
    d_attempt,        \* async_retry wrapper: loop variable attempt
    d_trace,          \* async_retry wrapper: its func() invocations and sleeps, in order
    d_last_exception, \* async_retry wrapper: local last_exception
    d_outcome,        \* how the async_retry wrapper ended
    t_browser,        \* TabManager: the browser handle ("present" or "none")
    t_tabs,           \* browser.tabs: the open tabs, in list order
    t_next_id,        \* the target id the next opened tab gets
    t_initial_tabs,   \* TabManager._initial_tabs: the recorded tab ids
    t_initial_tab_count, \* TabManager._initial_tab_count
    t_record_ret,     \* what the last record_tab_count() returned (-1: never called)
    t_added,          \* tabs opened since the last record_tab_count()
    t_removed,        \* tabs closed since the last record_tab_count()
    t_pc,             \* TabManager: "idle", or "detecting" inside detect_new_tab
    t_polls,          \* detect_new_tab: polls done so far
    t_found,          \* result of the last detect_new_tab / find_oauth_tab
    m_domain,         \* _domain_matches: the cookie domain passed in
    m_target,         \* CookieRetriever.target_domain of that call
    m_result,         \* what _domain_matches returned ("unset": not called yet)
    f_target,         \* CookieRetriever.target_domain of the lookup
    f_cookies,        \* _find_session_cookie: the cookie list passed in
    f_result,         \* what _find_session_cookie returned
    k_target,         \* CookieRetriever.target_domain of get_session_cookie
    k_jar,            \* the cookies the browser holds, in the order they were set
    k_max_retries,    \* get_session_cookie: the max_retries argument
    k_pc,             \* get_session_cookie: "idle", "loop", "done"
    k_reads,          \* the cookie reads done by this call, in order
    k_finds,          \* what the lookup gave for each read
    k_result,         \* what get_session_cookie returned
    k_outcome,        \* "return" or "raise" once the call ended
    a_cfg,            \* NewAPIAdapter: linuxdo_username, linuxdo_password, fallback_cookies
    a_login_method,   \* NewAPIAdapter._login_method
    a_client,         \* NewAPIAdapter.client: "none", or "set" once _init_http_client ran
    a_session_cookie, \* NewAPIAdapter.session_cookie
    a_browser,        \* NewAPIAdapter._browser_manager: "none" or "open"
    a_trace,          \* the calls the adapter made, in order
    l_pc,             \* login(): where it stands
    l_oauth,          \* login(): how the OAuth attempt ended, "skipped" without one
    l_ret,            \* what login() returned
    n_pc,             \* _login_via_linuxdo_nodriver: where it stands
    n_ret,            \* what _login_via_linuxdo_nodriver returned
    n_oauth_success,  \* its local oauth_success
    o_pc,             \* _execute_nodriver_oauth_flow: where it stands
    o_tab,            \* its local tab (the tab's id)
    o_original_tab,   \* its local original_tab
    o_click_tabs,     \* the ids of the tabs open when the button was clicked
    o_url,            \* its local current_url
    o_url_type,       \* its local url_type
    o_redirect,       \* how the redirect wait was left, and on which url
    o_count,          \* the polls or attempts done in the current wait or search
    o_timeouts,       \* the waits that timed out in this run
    o_ret,            \* "True", "False" or "raise" once the flow ended
    o_why,            \* why it did not end in True
    o_exc,            \* where the exception that ended it was raised
    o_new_tab,        \* its local new_tab (the id of the tab detect_new_tab returned, 0 for None)
    o_oauth_tab,      \* its local oauth_tab (the id of the tab find_oauth_tab returned, 0 for None)
    o_username_input, \* its local username_input: "unset", "none", or "filled" once send_keys ran
    o_password_input, \* its local password_input, likewise
    o_reads           \* the cookie reads of this run so far

cvars == <<c_url, c_target, c_result, c_auth, c_related>>
rvars == <<r_cfg, r_pc, r_attempt, r_trace, r_last_exception, r_outcome>>
dvars == <<d_pc, d_attempt, d_trace, d_last_exception, d_outcome>>
tvars == <<t_browser, t_tabs, t_next_id, t_initial_tabs, t_initial_tab_count,
           t_record_ret, t_added, t_removed, t_pc, t_polls, t_found>>
mvars == <<m_domain, m_target, m_result>>
fvars == <<f_target, f_cookies, f_result>>
kvars == <<k_target, k_jar, k_max_retries, k_pc, k_reads, k_finds, k_result, k_outcome>>
jvars == <<mvars, fvars, kvars>>
avars == <<a_cfg, a_login_method, a_client, a_session_cookie, a_browser, a_trace>>
lvars == <<l_pc, l_oauth, l_ret>>
nvars == <<n_pc, n_ret, n_oauth_success>>
ovars == <<o_pc, o_tab, o_original_tab, o_click_tabs, o_url, o_url_type, o_redirect,
           o_count, o_timeouts, o_ret, o_why, o_exc,
           o_new_tab, o_oauth_tab, o_username_input, o_password_input, o_reads>>
loginvars == <<avars, lvars, nvars, ovars>>
vars == <<c_url, c_target, c_result, c_auth, c_related,
          r_cfg, r_pc, r_attempt, r_trace, r_last_exception, r_outcome,
          d_pc, d_attempt, d_trace, d_last_exception, d_outcome,
          t_browser, t_tabs, t_next_id, t_initial_tabs, t_initial_tab_count,
          t_record_ret, t_added, t_removed, t_pc, t_polls, t_found,
          m_domain, m_target, m_result, f_target, f_cookies, f_result,
          k_target, k_jar, k_max_retries, k_pc, k_reads, k_finds, k_result,
          k_outcome,
          a_cfg, a_login_method, a_client, a_session_cookie, a_browser, a_trace,
          l_pc, l_oauth, l_ret, n_pc, n_ret, n_oauth_success,
          o_pc, o_tab, o_original_tab, o_click_tabs, o_url, o_url_type, o_redirect,
          o_count, o_timeouts, o_ret, o_why, o_exc,
          o_new_tab, o_oauth_tab, o_username_input, o_password_input, o_reads>>

-----------------------------------------------------------------------------
(* Bounds *)

MaxFrags == 3
MaxRetries == 3
MaxBaseDelay == 2
MaxBackoffFactor == 2
MaxInitialTabs == 2
MaxOpenedTabs == 2
MaxPolls == 2
MaxFindTabs == 3
MaxCookies == 3
MaxJar == 2
MaxCookieRetries == 3
MaxUrlPolls == 2
MaxFlowTabs == 2

-----------------------------------------------------------------------------
(* Python values and str methods *)

Str(s) == [kind |-> "str", s |-> s]
NoneVal == [kind |-> "none", s |-> <<>>]
\* a truthy object that is not a str (an int such as 5)
ObjVal == [kind |-> "obj", s |-> <<>>]
\* a falsy object that is not a str (the int 0)
ZeroVal == [kind |-> "zero", s |-> <<>>]

PyTruthy(v) == \/ v.kind = "obj"
               \/ (v.kind = "str" /\ v.s # <<>>)

PyIsStr(v) == v.kind = "str"

\* str.lower() on the letters the inputs use
LowerChar(c) ==
    CASE c = "A" -> "a" [] c = "B" -> "b" [] c = "C" -> "c" [] c = "D" -> "d" [] c = "E" -> "e"
      [] c = "G" -> "g" [] c = "H" -> "h" [] c = "I" -> "i" [] c = "L" -> "l"
      [] c = "M" -> "m" [] c = "N" -> "n" [] c = "O" -> "o" [] c = "P" -> "p"
      [] c = "R" -> "r" [] c = "T" -> "t"
      [] c = "U" -> "u" [] c = "X" -> "x" [] c = "Z" -> "z"
      [] OTHER -> c

str_lower(s) == [i \in 1..Len(s) |-> LowerChar(s[i])]

IsSpace(c) == c \in {" ", "\t", "\n"}

RECURSIVE lstrip(_)
lstrip(s) == IF s # <<>> /\ IsSpace(Head(s)) THEN lstrip(Tail(s)) ELSE s

RECURSIVE rstrip(_)
rstrip(s) == IF s # <<>> /\ IsSpace(s[Len(s)]) THEN rstrip(SubSeq(s, 1, Len(s) - 1)) ELSE s

str_strip(s) == rstrip(lstrip(s))

\* Python's `k in s` for two str
str_in(k, s) == \E i \in 1..(Len(s) - Len(k) + 1) : SubSeq(s, i, i + Len(k) - 1) = k

KW_authorize == <<"a", "u", "t", "h", "o", "r", "i", "z", "e">>
KW_linuxdo == <<"l", "i", "n", "u", "x", ".", "d", "o">>
KW_login == <<"l", "o", "g", "i", "n">>

-----------------------------------------------------------------------------
(* classify_oauth_url *)

OAuthURLType == {"LINUXDO_LOGIN", "AUTHORIZATION", "OAUTH_COMPLETE", "OTHER"}

\* Variant: the isinstance test of target_domain is missing.
classify_no_target_isinstance(url, target_domain) ==
    IF ~PyTruthy(url) \/ ~PyIsStr(url) THEN "OTHER"
    ELSE
      LET td == IF ~PyTruthy(target_domain) THEN Str(<<>>) ELSE target_domain
      IN  IF ~PyIsStr(td) THEN "AttributeError"
          ELSE
            LET url_lower == str_lower(url.s)
                target_domain_lower == str_strip(str_lower(td.s))
            IN  IF str_in(KW_authorize, url_lower) THEN "AUTHORIZATION"
                ELSE IF str_in(KW_linuxdo, url_lower) THEN "LINUXDO_LOGIN"
                ELSE IF /\ target_domain_lower # <<>>
                        /\ str_in(target_domain_lower, url_lower)
                        /\ ~str_in(KW_login, url_lower)
                     THEN "OAUTH_COMPLETE"
                ELSE "OTHER"

\* Variant: rules 1 and 2 in the opposite order.
classify_linuxdo_first(url, target_domain) ==
    IF ~PyTruthy(url) \/ ~PyIsStr(url) THEN "OTHER"
    ELSE
      LET td == IF ~PyTruthy(target_domain) \/ ~PyIsStr(target_domain)
                THEN Str(<<>>) ELSE target_domain
          url_lower == str_lower(url.s)
          target_domain_lower == str_strip(str_lower(td.s))
      IN  IF str_in(KW_linuxdo, url_lower) THEN "LINUXDO_LOGIN"
          ELSE IF str_in(KW_authorize, url_lower) THEN "AUTHORIZATION"
          ELSE IF /\ target_domain_lower # <<>>
                  /\ str_in(target_domain_lower, url_lower)
                  /\ ~str_in(KW_login, url_lower)
               THEN "OAUTH_COMPLETE"
          ELSE "OTHER"

\* Variant: rule 3 without the "login" exclusion.
classify_no_login_check(url, target_domain) ==
    IF ~PyTruthy(url) \/ ~PyIsStr(url) THEN "OTHER"
    ELSE
      LET td == IF ~PyTruthy(target_domain) \/ ~PyIsStr(target_domain)
                THEN Str(<<>>) ELSE target_domain
          url_lower == str_lower(url.s)
          target_domain_lower == str_strip(str_lower(td.s))
      IN  IF str_in(KW_authorize, url_lower) THEN "AUTHORIZATION"
          ELSE IF str_in(KW_linuxdo, url_lower) THEN "LINUXDO_LOGIN"
          ELSE IF /\ target_domain_lower # <<>>
                  /\ str_in(target_domain_lower, url_lower)
               THEN "OAUTH_COMPLETE"
          ELSE "OTHER"

\* Variant: the url is compared without lower().
classify_url_case_sensitive(url, target_domain) ==
    IF ~PyTruthy(url) \/ ~PyIsStr(url) THEN "OTHER"
    ELSE
      LET td == IF ~PyTruthy(target_domain) \/ ~PyIsStr(target_domain)
                THEN Str(<<>>) ELSE target_domain
          url_lower == url.s
          target_domain_lower == str_strip(str_lower(td.s))
      IN  IF str_in(KW_authorize, url_lower) THEN "AUTHORIZATION"
          ELSE IF str_in(KW_linuxdo, url_lower) THEN "LINUXDO_LOGIN"
          ELSE IF /\ target_domain_lower # <<>>
                  /\ str_in(target_domain_lower, url_lower)
                  /\ ~str_in(KW_login, url_lower)
               THEN "OAUTH_COMPLETE"
          ELSE "OTHER"

\* Variant: rule 3 without the test that the target domain is non-empty.
classify_no_empty_target_check(url, target_domain) ==
    IF ~PyTruthy(url) \/ ~PyIsStr(url) THEN "OTHER"
    ELSE
      LET td == IF ~PyTruthy(target_domain) \/ ~PyIsStr(target_domain)
                THEN Str(<<>>) ELSE target_domain
          url_lower == str_lower(url.s)
          target_domain_lower == str_strip(str_lower(td.s))
      IN  IF str_in(KW_authorize, url_lower) THEN "AUTHORIZATION"
          ELSE IF str_in(KW_linuxdo, url_lower) THEN "LINUXDO_LOGIN"
          ELSE IF /\ str_in(target_domain_lower, url_lower)
                  /\ ~str_in(KW_login, url_lower)
               THEN "OAUTH_COMPLETE"
          ELSE "OTHER"

\* Variant: the target domain is lower-cased but not stripped.
classify_no_strip(url, target_domain) ==
    IF ~PyTruthy(url) \/ ~PyIsStr(url) THEN "OTHER"
    ELSE
      LET td == IF ~PyTruthy(target_domain) \/ ~PyIsStr(target_domain)
                THEN Str(<<>>) ELSE target_domain
          url_lower == str_lower(url.s)
          target_domain_lower == str_lower(td.s)
      IN  IF str_in(KW_authorize, url_lower) THEN "AUTHORIZATION"
          ELSE IF str_in(KW_linuxdo, url_lower) THEN "LINUXDO_LOGIN"
          ELSE IF /\ target_domain_lower # <<>>
                  /\ str_in(target_domain_lower, url_lower)
                  /\ ~str_in(KW_login, url_lower)
               THEN "OAUTH_COMPLETE"
          ELSE "OTHER"

\* Variant: the target domain is stripped but not lower-cased.
classify_target_not_lowered(url, target_domain) ==
    IF ~PyTruthy(url) \/ ~PyIsStr(url) THEN "OTHER"
    ELSE
      LET td == IF ~PyTruthy(target_domain) \/ ~PyIsStr(target_domain)
                THEN Str(<<>>) ELSE target_domain
          url_lower == str_lower(url.s)
          target_domain_lower == str_strip(td.s)
      IN  IF str_in(KW_authorize, url_lower) THEN "AUTHORIZATION"
          ELSE IF str_in(KW_linuxdo, url_lower) THEN "LINUXDO_LOGIN"
          ELSE IF /\ target_domain_lower # <<>>
                  /\ str_in(target_domain_lower, url_lower)
                  /\ ~str_in(KW_login, url_lower)
               THEN "OAUTH_COMPLETE"
          ELSE "OTHER"

\* Variant: the target domain is looked for before the two keywords.
classify_target_first(url, target_domain) ==
    IF ~PyTruthy(url) \/ ~PyIsStr(url) THEN "OTHER"
    ELSE
      LET td == IF ~PyTruthy(target_domain) \/ ~PyIsStr(target_domain)
                THEN Str(<<>>) ELSE target_domain
          url_lower == str_lower(url.s)
          target_domain_lower == str_strip(str_lower(td.s))
      IN  IF /\ target_domain_lower # <<>>
             /\ str_in(target_domain_lower, url_lower)
             /\ ~str_in(KW_login, url_lower)
          THEN "OAUTH_COMPLETE"
          ELSE IF str_in(KW_authorize, url_lower) THEN "AUTHORIZATION"
          ELSE IF str_in(KW_linuxdo, url_lower) THEN "LINUXDO_LOGIN"
          ELSE "OTHER"

classify_oauth_url(url, target_domain) ==
    IF ~PyTruthy(url) \/ ~PyIsStr(url) THEN "OTHER"
    ELSE
      LET td == IF ~PyTruthy(target_domain) \/ ~PyIsStr(target_domain)
                THEN Str(<<>>) ELSE target_domain
      IN  IF ~PyIsStr(td) THEN "AttributeError"   \* .lower() of a non-str
          ELSE
            LET url_lower == str_lower(url.s)
                target_domain_lower == str_strip(str_lower(td.s))
            IN  IF str_in(KW_authorize, url_lower) THEN "AUTHORIZATION"
                ELSE IF str_in(KW_linuxdo, url_lower) THEN "LINUXDO_LOGIN"
                ELSE IF /\ target_domain_lower # <<>>
                        /\ str_in(target_domain_lower, url_lower)
                        /\ ~str_in(KW_login, url_lower)
                     THEN "OAUTH_COMPLETE"
                ELSE "OTHER"

-----------------------------------------------------------------------------
(* Inputs of the classifier: URLs are concatenations of at most MaxFrags   *)
(* fragments; the fragments hold the keywords in both cases, the target    *)
(* domain, keyword halves that join across fragments, and whitespace.      *)

UrlFrags == {
    KW_authorize,
    <<"A", "U", "T", "H", "O", "R", "I", "Z", "E">>,
    KW_linuxdo,
    <<"L", "i", "n", "u", "x", ".", "D", "O">>,
    KW_login,
    <<"l", "o", "g">>,
    <<"i", "n">>,
    <<"e", "x", ".", "c", "o">>,
    <<"E", "X", ".", "C", "O">>,
    <<"/">>,
    <<" ">> }

RECURSIVE UrlsOf(_)
UrlsOf(n) == IF n = 0 THEN {<<>>}
             ELSE LET shorter == UrlsOf(n - 1)
                  IN  shorter \cup {u \o f : u \in shorter, f \in UrlFrags}

UrlInputs == {Str(u) : u \in UrlsOf(MaxFrags)} \cup {NoneVal, ObjVal, ZeroVal}

TargetInputs == {
    NoneVal, ObjVal, ZeroVal,
    Str(<<>>),
    Str(<<" ">>),
    Str(<<"e", "x", ".", "c", "o">>),
    Str(<<" ", "E", "x", ".", "C", "o", "\t">>),
    Str(<<"i", "n">>),
    Str(<<"l", "o", "g", "i", "n", ".", "c", "o">>),
    Str(KW_login),
    Str(<<"A", "u", "t", "h", "o", "r", "i", "z", "e">>),
    Str(KW_linuxdo),
    Str(<<"z", "z">>) }

ClassifyInit ==
    /\ c_url \in UrlInputs
    /\ c_target \in TargetInputs
    /\ c_result = "pending"
    /\ c_auth = "idle"
    /\ c_related = "idle"

ClassifyCall ==
    /\ c_result = "pending"
    /\ c_result' = classify_oauth_url(c_url, c_target)
    /\ UNCHANGED <<c_url, c_target, c_auth, c_related>>

-----------------------------------------------------------------------------
(* retry_async_operation *)
(* Delays are floats in the code; the model draws them from the naturals,  *)
(* where base_delay * backoff_factor ** (attempt - 1) is exact.            *)

DefaultMaxDelay == 30

\* last_exception = None
NoExc == [kind |-> "None"]

\* exception classes an operation may raise, with their base classes
ExcTypes == {"ValueError", "KeyError", "CancelledError"}

Bases(t) ==
    CASE t = "ValueError" -> {"ValueError", "Exception", "BaseException"}
      [] t = "KeyError" -> {"KeyError", "LookupError", "Exception", "BaseException"}
      [] t = "CancelledError" -> {"CancelledError", "BaseException"}
      [] t = "RuntimeError" -> {"RuntimeError", "Exception", "BaseException"}

\* the `exceptions` argument: None or a tuple of classes
ExceptionsNone == [given |-> FALSE, classes |-> {}]
ExceptionsTuple(classes) == [given |-> TRUE, classes |-> classes]
ExceptionsArgs == {ExceptionsNone, ExceptionsTuple({}), ExceptionsTuple({"ValueError"}),
                   ExceptionsTuple({"Exception"})}

\* retry_exceptions = exceptions or (Exception,)
retry_exceptions(exceptions) ==
    IF ~exceptions.given \/ exceptions.classes = {} THEN {"Exception"}
    ELSE exceptions.classes

\* Variant: a handler that catches every exception.
Catches_everything(classes, e) == TRUE

\* `except retry_exceptions as e` catches e
Catches(classes, e) == Bases(e.type) \cap classes # {}

RECURSIVE Pow(_, _)
Pow(b, e) == IF e = 0 THEN 1 ELSE b * Pow(b, e - 1)

Min(a, b) == IF a <= b THEN a ELSE b

\* Variant: the exponent is attempt, not attempt - 1.
BackoffDelay_exponent_attempt(cfg, attempt) ==
    Min(cfg.base_delay * Pow(cfg.backoff_factor, attempt), cfg.max_delay)

\* delay = min(base_delay * (backoff_factor ** (attempt - 1)), max_delay)
BackoffDelay(cfg, attempt) ==
    Min(cfg.base_delay * Pow(cfg.backoff_factor, attempt - 1), cfg.max_delay)

\* Variant: sleeps after the last attempt as well.
ShouldSleep_inclusive(cfg, attempt) == attempt <= cfg.max_retries

\* if attempt < max_retries
ShouldSleep(cfg, attempt) == attempt < cfg.max_retries

\* Variant: keeps the first exception.
UpdateLastException_keep_first(last, e) == IF last = NoExc THEN e ELSE last

\* last_exception = e
UpdateLastException(last, e) == e

\* Variant: the coroutine a plain callable returns is handed back unawaited
\* (value 0 stands for the coroutine object; results are numbered from 1).
InvokeOutcome_no_await(op_kind, out) ==
    IF op_kind = "returns_coroutine" THEN [kind |-> "return", val |-> 0] ELSE out

\* what the try block sees of one invocation: the operation is a coroutine
\* function (awaited), a callable that returns a coroutine (awaited), or a
\* callable that returns a plain value
InvokeOutcome(op_kind, out) == out

\* Variant: the loop body runs at least once.
LoopNext_at_least_once(cfg, attempt) ==
    IF attempt = 0 \/ attempt + 1 <= cfg.max_retries THEN "attempt" ELSE "after_loop"

\* for attempt in range(1, max_retries + 1): position after iteration `attempt`
LoopNext(cfg, attempt) == IF attempt + 1 <= cfg.max_retries THEN "attempt" ELSE "after_loop"

\* what the n-th invocation of the operation may do; an exception object is
\* identified by the invocation that raised it
OpOutcomes(n) == {[kind |-> "return", val |-> n]}
                 \cup {[kind |-> "raise", type |-> t, id |-> n] : t \in ExcTypes}

RetryConfigs ==
    [max_retries : (-1)..MaxRetries,
     base_delay : 1..MaxBaseDelay,
     backoff_factor : 0..MaxBackoffFactor,
     max_delay : {1, 3, DefaultMaxDelay},
     exceptions : ExceptionsArgs,
     op_kind : {"async", "returns_coroutine", "sync"}]

RetryInit ==
    /\ r_cfg \in RetryConfigs
    /\ r_pc = "start"
    /\ r_attempt = 0
    /\ r_trace = <<>>
    /\ r_last_exception = NoExc
    /\ r_outcome = NoExc

Calls(trace) == SelectSeq(trace, LAMBDA ev : ev.ev = "call")
Sleeps(trace) == SelectSeq(trace, LAMBDA ev : ev.ev = "sleep")

\* lines 669-672: the locals are set and the for loop is entered
RetryEnter ==
    /\ r_pc = "start"
    /\ r_last_exception' = NoExc
    /\ r_attempt' = 1
    /\ r_pc' = LoopNext(r_cfg, 0)
    /\ UNCHANGED <<r_cfg, r_trace, r_outcome>>

\* lines 673-685, 695-699: one pass through the try block and its handler
RetryAttempt ==
    /\ r_pc = "attempt"
    /\ \E out \in OpOutcomes(Len(Calls(r_trace)) + 1) :
         LET seen == InvokeOutcome(r_cfg.op_kind, out)
         IN  /\ r_trace' = Append(r_trace, [ev |-> "call", out |-> out])
             /\ IF seen.kind = "return"
                THEN /\ r_outcome' = seen
                     /\ r_pc' = "done"
                     /\ UNCHANGED <<r_last_exception, r_attempt>>
                ELSE IF Catches(retry_exceptions(r_cfg.exceptions), seen)
                THEN /\ r_last_exception' = UpdateLastException(r_last_exception, seen)
                     /\ IF ShouldSleep(r_cfg, r_attempt)
                        THEN r_pc' = "sleep" /\ UNCHANGED r_attempt
                        ELSE /\ r_pc' = LoopNext(r_cfg, r_attempt)
                             /\ r_attempt' = r_attempt + 1
                     /\ UNCHANGED r_outcome
                ELSE /\ r_outcome' = seen
                     /\ r_pc' = "done"
                     /\ UNCHANGED <<r_last_exception, r_attempt>>
    /\ UNCHANGED r_cfg

\* lines 686-694: the delay is computed and slept, the loop goes on
RetrySleep ==
    /\ r_pc = "sleep"
    /\ r_trace' = Append(r_trace, [ev |-> "sleep", delay |-> BackoffDelay(r_cfg, r_attempt)])
    /\ r_pc' = LoopNext(r_cfg, r_attempt)
    /\ r_attempt' = r_attempt + 1
    /\ UNCHANGED <<r_cfg, r_last_exception, r_outcome>>

\* lines 701-705: after the loop
RetryAfterLoop ==
    /\ r_pc = "after_loop"
    /\ r_outcome' = IF r_last_exception # NoExc
                    THEN r_last_exception
                    ELSE [kind |-> "raise", type |-> "RuntimeError", id |-> 0]
    /\ r_pc' = "done"
    /\ UNCHANGED <<r_cfg, r_attempt, r_trace, r_last_exception>>

-----------------------------------------------------------------------------
(* async_retry: the wrapper the decorator returns.  It is run on the policy *)
(* r_cfg after retry_async_operation has ended, and its n-th invocation of  *)
(* func meets the outcome the n-th invocation of the operation met.         *)

\* retry_exceptions = exceptions or (Exception,)   (decorator, line 586)
wrapper_retry_exceptions(exceptions) ==
    IF ~exceptions.given \/ exceptions.classes = {} THEN {"Exception"}
    ELSE exceptions.classes

\* Variant: the wrapper sleeps after its last attempt as well.
WrapperShouldSleep_inclusive(cfg, attempt) == attempt <= cfg.max_retries

\* if attempt < max_retries   (wrapper, line 602)
WrapperShouldSleep(cfg, attempt) == attempt < cfg.max_retries

\* delay = min(base_delay * (backoff_factor ** (attempt - 1)), max_delay)   (line 604)
WrapperBackoffDelay(cfg, attempt) ==
    Min(cfg.base_delay * Pow(cfg.backoff_factor, attempt - 1), cfg.max_delay)

\* the outcome of the wrapper's n-th invocation of func
WrapperOutcomes(n) ==
    IF n <= Len(Calls(r_trace)) THEN {Calls(r_trace)[n].out} ELSE OpOutcomes(n)

WrapperInit ==
    /\ d_pc = "start"
    /\ d_attempt = 0
    /\ d_trace = <<>>
    /\ d_last_exception = NoExc
    /\ d_outcome = NoExc

\* lines 594-596
WrapperEnter ==
    /\ r_pc = "done"
    /\ d_pc = "start"
    /\ d_last_exception' = NoExc
    /\ d_attempt' = 1
    /\ d_pc' = LoopNext(r_cfg, 0)
    /\ UNCHANGED <<d_trace, d_outcome>>

\* lines 597-602, 612-616
WrapperAttempt ==
    /\ d_pc = "attempt"
    /\ \E out \in WrapperOutcomes(Len(Calls(d_trace)) + 1) :
         /\ d_trace' = Append(d_trace, [ev |-> "call", out |-> out])
         /\ IF out.kind = "return"
            THEN /\ d_outcome' = out
                 /\ d_pc' = "done"
                 /\ UNCHANGED <<d_last_exception, d_attempt>>
            ELSE IF Catches(wrapper_retry_exceptions(r_cfg.exceptions), out)
            THEN /\ d_last_exception' = out
                 /\ IF WrapperShouldSleep(r_cfg, d_attempt)
                    THEN d_pc' = "sleep" /\ UNCHANGED d_attempt
                    ELSE /\ d_pc' = LoopNext(r_cfg, d_attempt)
                         /\ d_attempt' = d_attempt + 1
                 /\ UNCHANGED d_outcome
            ELSE /\ d_outcome' = out
                 /\ d_pc' = "done"
                 /\ UNCHANGED <<d_last_exception, d_attempt>>

\* lines 603-611
WrapperSleep ==
    /\ d_pc = "sleep"
    /\ d_trace' = Append(d_trace, [ev |-> "sleep", delay |-> WrapperBackoffDelay(r_cfg, d_attempt)])
    /\ d_pc' = LoopNext(r_cfg, d_attempt)
    /\ d_attempt' = d_attempt + 1
    /\ UNCHANGED <<d_last_exception, d_outcome>>

\* lines 618-623
WrapperAfterLoop ==
    /\ d_pc = "after_loop"
    /\ d_outcome' = IF d_last_exception # NoExc
                    THEN d_last_exception
                    ELSE [kind |-> "raise", type |-> "RuntimeError", id |-> 0]
    /\ d_pc' = "done"
    /\ UNCHANGED <<d_attempt, d_trace, d_last_exception>>

-----------------------------------------------------------------------------
(* is_oauth_related_url *)

KW_oauth == <<"o", "a", "u", "t", "h">>
KW_callback == <<"c", "a", "l", "l", "b", "a", "c", "k">>

oauth_keywords == {KW_linuxdo, KW_oauth, KW_authorize, KW_callback}

\* Variant: the url is searched without lower().
is_oauth_related_url_case_sensitive(url) ==
    IF ~PyTruthy(url) \/ ~PyIsStr(url) THEN FALSE
    ELSE \E keyword \in oauth_keywords : str_in(keyword, url.s)

\* Variant: "authorize" is not one of the keywords.
is_oauth_related_url_no_authorize(url) ==
    IF ~PyTruthy(url) \/ ~PyIsStr(url) THEN FALSE
    ELSE LET url_lower == str_lower(url.s)
         IN  \E keyword \in oauth_keywords \ {KW_authorize} : str_in(keyword, url_lower)

is_oauth_related_url(url) ==
    IF ~PyTruthy(url) \/ ~PyIsStr(url) THEN FALSE
    ELSE LET url_lower == str_lower(url.s)
         IN  \E keyword \in oauth_keywords : str_in(keyword, url_lower)

-----------------------------------------------------------------------------
(* TabManager (utils/browser.py): record_tab_count, detect_new_tab,         *)
(* find_oauth_tab, over a browser whose tab list changes under it.          *)

Range(f) == {f[i] : i \in DOMAIN f}

\* a tab: its target id (1, 2, ...) and its target url
Tab(id, url) == [id |-> id, url |-> url]
NullTab == [id |-> 0, url |-> NoneVal]

TabIds(tabs) == [i \in 1..Len(tabs) |-> tabs[i].id]

NoFound == [op |-> "none", tab |-> NullTab, added |-> 0]

PlainUrl == Str(<<"r", ".", "c", "o">>)

\* Variant: the first tab is left out of the record.
RecordedIds_skip_first(browser, tabs) ==
    IF browser = "none" \/ tabs = <<>> THEN <<>> ELSE Tail(TabIds(tabs))

\* the ids record_tab_count stores: those of the current tabs, none without a browser
RecordedIds(browser, tabs) == IF browser = "none" THEN <<>> ELSE TabIds(tabs)

\* Variant: the count is one short.
RecordedCount_one_short(browser, tabs) ==
    IF browser = "none" \/ tabs = <<>> THEN 0 ELSE Len(tabs) - 1

\* the count record_tab_count stores and returns
RecordedCount(browser, tabs) == IF browser = "none" THEN 0 ELSE Len(tabs)

\* Variant: tab objects are looked up among the recorded ids, so every tab is new.
DetectResult_every_tab_new(browser, tabs, initial_tabs) ==
    IF browser = "none" \/ tabs = <<>> THEN NullTab ELSE tabs[Len(tabs)]

\* one poll of detect_new_tab: the last tab whose id is not recorded, if any
DetectResult(browser, tabs, initial_tabs) ==
    IF browser = "none" THEN NullTab
    ELSE LET new == SelectSeq(tabs, LAMBDA t : t.id \notin Range(initial_tabs))
         IN  IF new = <<>> THEN NullTab ELSE new[Len(new)]

\* find_oauth_tab: the first tab with an OAuth-related url, if any
FindResult(browser, tabs) ==
    IF browser = "none" THEN NullTab
    ELSE LET hits == SelectSeq(tabs, LAMBDA t : is_oauth_related_url(t.url))
         IN  IF hits = <<>> THEN NullTab ELSE hits[1]

\* TabManager(browser) on a browser with n tabs open
TabsInit ==
    /\ t_browser \in {"present", "none"}
    /\ \E n \in 0..MaxInitialTabs :
         /\ t_tabs = IF t_browser = "none" THEN <<>> ELSE [i \in 1..n |-> Tab(i, PlainUrl)]
         /\ t_next_id = IF t_browser = "none" THEN 1 ELSE n + 1
    /\ t_initial_tabs = <<>>
    /\ t_initial_tab_count = 0
    /\ t_record_ret = -1
    /\ t_added = 0
    /\ t_removed = 0
    /\ t_pc = "idle"
    /\ t_polls = 0
    /\ t_found = NoFound

\* the browser opens a tab (appended to browser.tabs)
AddTab ==
    /\ t_browser = "present"
    /\ t_next_id <= MaxInitialTabs + MaxOpenedTabs
    /\ t_tabs' = Append(t_tabs, Tab(t_next_id, PlainUrl))
    /\ t_next_id' = t_next_id + 1
    /\ t_added' = t_added + 1
    /\ UNCHANGED <<t_browser, t_initial_tabs, t_initial_tab_count, t_record_ret,
                   t_removed, t_pc, t_polls, t_found>>

\* the browser closes a tab
RemoveTab ==
    /\ t_browser = "present"
    /\ \E i \in 1..Len(t_tabs) :
         t_tabs' = SubSeq(t_tabs, 1, i - 1) \o SubSeq(t_tabs, i + 1, Len(t_tabs))
    /\ t_removed' = t_removed + 1
    /\ UNCHANGED <<t_browser, t_next_id, t_initial_tabs, t_initial_tab_count,
                   t_record_ret, t_added, t_pc, t_polls, t_found>>

\* record_tab_count()
RecordTabCount ==
    /\ t_pc = "idle"
    /\ t_initial_tabs' = RecordedIds(t_browser, t_tabs)
    /\ t_initial_tab_count' = RecordedCount(t_browser, t_tabs)
    /\ t_record_ret' = RecordedCount(t_browser, t_tabs)
    /\ t_added' = 0
    /\ t_removed' = 0
    /\ t_found' = NoFound
    /\ UNCHANGED <<t_browser, t_tabs, t_next_id, t_pc, t_polls>>

\* detect_new_tab(timeout) is called
DetectNewTabStart ==
    /\ t_pc = "idle"
    /\ t_record_ret # -1
    /\ t_pc' = "detecting"
    /\ t_polls' = 0
    /\ t_found' = NoFound
    /\ UNCHANGED <<t_browser, t_tabs, t_next_id, t_initial_tabs, t_initial_tab_count,
                   t_record_ret, t_added, t_removed>>

\* detect_new_tab: one poll; a new tab is returned, or the poll is repeated,
\* or the timeout has passed and None is returned
DetectNewTabPoll ==
    /\ t_pc = "detecting"
    /\ LET hit == DetectResult(t_browser, t_tabs, t_initial_tabs)
       IN  IF hit # NullTab \/ t_polls + 1 >= MaxPolls
           THEN /\ t_found' = [op |-> "detect", tab |-> hit, added |-> t_added]
                /\ t_pc' = "idle"
                /\ t_polls' = 0
           ELSE /\ t_polls' = t_polls + 1
                /\ UNCHANGED <<t_found, t_pc>>
    /\ UNCHANGED <<t_browser, t_tabs, t_next_id, t_initial_tabs, t_initial_tab_count,
                   t_record_ret, t_added, t_removed>>

\* a browser with its tabs on given urls, for find_oauth_tab
FindUrls == {
    PlainUrl,
    Str(<<"L", "i", "n", "u", "x", ".", "D", "O">>),
    Str(<<"x", "/", "O", "A", "u", "t", "h">>),
    Str(<<"A", "U", "T", "H", "O", "R", "I", "Z", "E">>),
    Str(<<"C", "a", "l", "l", "B", "a", "c", "k">>),
    Str(<<"c", "a", "l", "l">>),
    Str(<<>>),
    NoneVal }

RECURSIVE UrlLists(_)
UrlLists(n) == IF n = 0 THEN {<<>>}
               ELSE LET shorter == UrlLists(n - 1)
                    IN  shorter \cup {Append(l, u) : l \in shorter, u \in FindUrls}

FindInit ==
    /\ t_browser \in {"present", "none"}
    /\ \E urls \in UrlLists(MaxFindTabs) :
         t_tabs = IF t_browser = "none" THEN <<>>
                  ELSE [i \in 1..Len(urls) |-> Tab(i, urls[i])]
    /\ t_next_id = Len(t_tabs) + 1
    /\ t_initial_tabs = <<>>
    /\ t_initial_tab_count = 0
    /\ t_record_ret = -1
    /\ t_added = 0
    /\ t_removed = 0
    /\ t_pc = "idle"
    /\ t_polls = 0
    /\ t_found = NoFound

\* find_oauth_tab()
FindOAuthTab ==
    /\ t_pc = "idle"
    /\ t_found = NoFound
    /\ t_found' = [op |-> "find", tab |-> FindResult(t_browser, t_tabs), added |-> 0]
    /\ UNCHANGED <<t_browser, t_tabs, t_next_id, t_initial_tabs, t_initial_tab_count,
                   t_record_ret, t_added, t_removed, t_pc, t_polls>>

-----------------------------------------------------------------------------
(* CookieRetriever: domain matching, session-cookie lookup, retried read *)

EXAMPLE_COM == <<"e", "x", "a", "m", "p", "l", "e", ".", "c", "o", "m">>
Example_COM == <<"E", "x", "a", "m", "p", "l", "e", ".", "C", "O", "M">>
SUB_EXAMPLE_COM == <<"s", "u", "b", ".">> \o EXAMPLE_COM
NOTEXAMPLE_COM == <<"n", "o", "t">> \o EXAMPLE_COM
OTHER_COM == <<"o", "t", "h", "e", "r", ".", "c", "o", "m">>

\* str.endswith
str_endswith(s, suffix) ==
    /\ Len(suffix) <= Len(s)
    /\ SubSeq(s, Len(s) - Len(suffix) + 1, Len(s)) = suffix

\* the cookie domain without its leading "."
strip_leading_dot(s) == IF s # <<>> /\ Head(s) = "." THEN Tail(s) ELSE s

\* Variant: a bare suffix test, without the "." in front of the parent.
domain_matches_bare_suffix(domain, target_domain) ==
    IF ~PyTruthy(domain) THEN FALSE
    ELSE LET d == str_lower(strip_leading_dot(domain.s))
             t == str_lower(target_domain)
         IN  \/ d = t
             \/ str_endswith(d, t)
             \/ str_endswith(t, d)

\* CookieRetriever._domain_matches(domain)
domain_matches(domain, target_domain) ==
    IF ~PyTruthy(domain) THEN FALSE
    ELSE LET d == str_lower(strip_leading_dot(domain.s))
             t == str_lower(target_domain)
         IN  \/ d = t
             \/ str_endswith(d, <<".">> \o t)
             \/ str_endswith(t, <<".">> \o d)

PyBool(b) == IF b THEN "True" ELSE "False"

\* the domains _domain_matches is called with: [.][sub.|deep.sub.|not|my]
\* example.com[.evil.com] in two letter cases, and the odd ones
LeadingDots == {<<>>, <<".">>}
DomainPrefixes == {<<>>, <<"s", "u", "b", ".">>,
                   <<"d", "e", "e", "p", ".", "s", "u", "b", ".">>,
                   <<"n", "o", "t">>, <<"m", "y">>}
DomainCores == {EXAMPLE_COM, Example_COM}
DomainSuffixes == {<<>>, <<".", "e", "v", "i", "l", ".", "c", "o", "m">>}

CookieDomains ==
    {Str(l \o p \o c \o x) : l \in LeadingDots, p \in DomainPrefixes,
                             c \in DomainCores, x \in DomainSuffixes}
    \cup {Str(<<>>), NoneVal, Str(<<".">>), Str(OTHER_COM), Str(<<"c", "o", "m">>)}

TargetDomains == {EXAMPLE_COM, Example_COM, SUB_EXAMPLE_COM}

DomainInit ==
    /\ m_domain \in CookieDomains
    /\ m_target \in TargetDomains
    /\ m_result = "unset"

DomainMatchesCall ==
    /\ m_result = "unset"
    /\ m_result' = PyBool(domain_matches(m_domain, m_target))
    /\ UNCHANGED <<m_domain, m_target>>

Cookie(name, domain, value) == [name |-> name, domain |-> domain, value |-> value]

Unset == [kind |-> "unset", s |-> <<>>]
V1 == Str(<<"v", "1">>)
V2 == Str(<<"v", "2">>)

RECURSIVE SetMin(_)
SetMin(S) == LET x == CHOOSE y \in S : TRUE
             IN  IF S = {x} THEN x
                 ELSE LET m == SetMin(S \ {x}) IN IF x < m THEN x ELSE m

\* Variant: the name of the cookie is not looked at.
find_session_cookie_any_name(cookies, target_domain) ==
    LET hits == {i \in 1..Len(cookies) :
                    domain_matches(cookies[i].domain, target_domain)}
    IN  IF hits = {} THEN NoneVal ELSE cookies[SetMin(hits)].value

\* CookieRetriever._find_session_cookie(cookies)
find_session_cookie(cookies, target_domain) ==
    LET hits == {i \in 1..Len(cookies) :
                    /\ cookies[i].name = "session"
                    /\ domain_matches(cookies[i].domain, target_domain)}
    IN  IF hits = {} THEN NoneVal ELSE cookies[SetMin(hits)].value

LookupCookies ==
    {Cookie(n, d, v) : n \in {"session", "other"},
                       d \in {Str(EXAMPLE_COM), Str(<<".">> \o SUB_EXAMPLE_COM),
                              Str(NOTEXAMPLE_COM)},
                       v \in {V1, V2}}
    \cup {Cookie("Session", Str(EXAMPLE_COM), V1)}

CookieLists(n) == UNION {[1..k -> LookupCookies] : k \in 0..n}

LookupInit ==
    /\ f_target \in {EXAMPLE_COM, SUB_EXAMPLE_COM}
    /\ f_cookies \in CookieLists(MaxCookies)
    /\ f_result = Unset

FindSessionCookieCall ==
    /\ f_result = Unset
    /\ f_result' = find_session_cookie(f_cookies, f_target)
    /\ UNCHANGED <<f_target, f_cookies>>

\* Variant: a failed read is passed on to the caller.
get_all_cookies_propagate(failed, jar) ==
    IF failed THEN [raised |-> TRUE, cookies |-> <<>>]
    ELSE [raised |-> FALSE, cookies |-> jar]

\* the cookie read of one attempt: the engine's cookies, none when it fails
get_all_cookies(failed, jar) ==
    IF failed THEN [raised |-> FALSE, cookies |-> <<>>]
    ELSE [raised |-> FALSE, cookies |-> jar]

\* Variant: one attempt more than max_retries.
CookieLoopContinues_one_more(reads_done, max_retries) == reads_done <= max_retries

\* for attempt in range(max_retries)
CookieLoopContinues(reads_done, max_retries) == reads_done < max_retries

JarCookies == {Cookie("session", Str(EXAMPLE_COM), V1),
               Cookie("session", Str(NOTEXAMPLE_COM), V2),
               Cookie("other", Str(EXAMPLE_COM), V2)}

CookieInit ==
    /\ k_target \in {EXAMPLE_COM, SUB_EXAMPLE_COM}
    /\ k_jar = <<>>
    /\ k_max_retries = 0
    /\ k_pc = "idle"
    /\ k_reads = <<>>
    /\ k_finds = <<>>
    /\ k_result = Unset
    /\ k_outcome = "none"

\* the site sets a cookie in the browser
SetCookie ==
    /\ k_pc # "off"
    /\ Len(k_jar) < MaxJar
    /\ \E c \in JarCookies : k_jar' = Append(k_jar, c)
    /\ UNCHANGED <<k_target, k_max_retries, k_pc, k_reads, k_finds, k_result, k_outcome>>

\* get_session_cookie(max_retries) is called
GetSessionCookieStart ==
    /\ k_pc \in {"idle", "done"}
    /\ \E n \in 0..MaxCookieRetries : k_max_retries' = n
    /\ k_pc' = "loop"
    /\ k_reads' = <<>>
    /\ k_finds' = <<>>
    /\ k_result' = Unset
    /\ k_outcome' = "none"
    /\ UNCHANGED <<k_target, k_jar>>

\* one attempt: read the cookies, look the session cookie up, return it if found
GetSessionCookieAttempt ==
    /\ k_pc = "loop"
    /\ CookieLoopContinues(Len(k_reads), k_max_retries)
    /\ \E failed \in BOOLEAN :
          LET got == get_all_cookies(failed, k_jar)
              session == find_session_cookie(got.cookies, k_target)
          IN  /\ k_reads' = Append(k_reads, [failed |-> failed, jar |-> k_jar])
              /\ IF got.raised
                 THEN /\ k_pc' = "done"
                      /\ k_outcome' = "raise"
                      /\ UNCHANGED <<k_finds, k_result>>
                 ELSE /\ k_finds' = Append(k_finds, session)
                      /\ IF session # NoneVal
                         THEN /\ k_pc' = "done"
                              /\ k_result' = session
                              /\ k_outcome' = "return"
                         ELSE UNCHANGED <<k_pc, k_result, k_outcome>>
    /\ UNCHANGED <<k_target, k_jar, k_max_retries>>

\* the attempts are used up: return None
GetSessionCookieGiveUp ==
    /\ k_pc = "loop"
    /\ ~CookieLoopContinues(Len(k_reads), k_max_retries)
    /\ k_pc' = "done"
    /\ k_result' = NoneVal
    /\ k_outcome' = "return"
    /\ UNCHANGED <<k_target, k_jar, k_max_retries, k_reads, k_finds>>

-----------------------------------------------------------------------------
(* The url predicates of oauth_helpers.py, each applied to a url of the    *)
(* classifier's inputs.                                                     *)

\* Variant: "authorize" alone decides, as in classify_oauth_url.
is_authorization_url_authorize_first(url) ==
    IF ~PyTruthy(url) \/ ~PyIsStr(url) THEN FALSE
    ELSE str_in(KW_authorize, str_lower(url.s))

\* is_authorization_url: a url with "linux.do" is not an authorization url
is_authorization_url(url) ==
    IF ~PyTruthy(url) \/ ~PyIsStr(url) THEN FALSE
    ELSE IF str_in(KW_linuxdo, str_lower(url.s)) THEN FALSE
    ELSE str_in(KW_authorize, str_lower(url.s))

PredicatesInit ==
    /\ c_url \in UrlInputs
    /\ c_target = NoneVal
    /\ c_result = "idle"
    /\ c_auth = "pending"
    /\ c_related = "pending"

IsAuthorizationUrlCall ==
    /\ c_auth = "pending"
    /\ c_auth' = PyBool(is_authorization_url(c_url))
    /\ UNCHANGED <<c_url, c_target, c_result, c_related>>

IsOAuthRelatedUrlCall ==
    /\ c_related = "pending"
    /\ c_related' = PyBool(is_oauth_related_url(c_url))
    /\ UNCHANGED <<c_url, c_target, c_result, c_auth>>

-----------------------------------------------------------------------------
(* NewAPIAdapter: login(), _login_via_linuxdo, _login_via_linuxdo_nodriver  *)
(* and _execute_nodriver_oauth_flow, with the nodriver engine. The browser  *)
(* is the environment: each awaited call returns or raises, tabs open and   *)
(* pages navigate while the flow is suspended.                              *)

\* COOKIE_DOMAIN of the site
COOKIE_DOMAIN == Str(<<"s", ".", "i", "o">>)

\* the pages a tab can be on
UrlSiteLogin == Str(<<"s", ".", "i", "o", "/", "l", "o", "g", "i", "n">>)
UrlSiteConsole == Str(<<"S", ".", "i", "o", "/", "c">>)
UrlLinuxdoLogin == Str(<<"l", "i", "n", "u", "x", ".", "d", "o", "/", "l", "o", "g", "i", "n">>)
UrlAuthorize == Str(<<"c", ".", "l", "i", "n", "u", "x", ".", "d", "o", "/",
                      "a", "u", "t", "h", "o", "r", "i", "z", "e", "?", "s", ".", "i", "o">>)
UrlBlank == Str(<<"b", "l", "a", "n", "k">>)

PageUrls == {UrlSiteLogin, UrlSiteConsole, UrlLinuxdoLogin, UrlAuthorize, UrlBlank}

\* the pages the click on the provider button can open in a new tab
NewTabUrls == {UrlLinuxdoLogin, UrlAuthorize, UrlBlank}

\* the tab object with a given id, as browser.tabs holds it
TabOf(tabs, id) ==
    LET hits == SelectSeq(tabs, LAMBDA t : t.id = id)
    IN  IF hits = <<>> THEN NullTab ELSE hits[1]

\* the page of tab id is replaced
WithUrl(tabs, id, url) ==
    [i \in 1..Len(tabs) |-> IF tabs[i].id = id THEN Tab(id, url) ELSE tabs[i]]

\* URLMonitor.get_current_url() of the flow's tab
current_url_of(tabs, id) == TabOf(tabs, id).url

\* URLMonitor.wait_for_url_contains: the test of one poll
url_contains(url, pattern) ==
    /\ PyIsStr(url)
    /\ str_in(str_lower(pattern.s), str_lower(url.s))

\* line 849: wait_for_url_contains(self.COOKIE_DOMAIN, timeout=30) is left
\* on the first url that holds the target domain
redirect_wait_matches(url, target_domain) == url_contains(url, target_domain)

\* every url the flow can read, and the three url tests of the flow tabulated
\* over them: classify_oauth_url(url, self.COOKIE_DOMAIN) (lines 693, 852),
\* wait_for_url_contains("linux.do") (line 679) and the redirect wait (line 849)
FlowUrls == PageUrls \cup NewTabUrls \cup {NoneVal}

ClassifiedUrl == [u \in FlowUrls |-> classify_oauth_url(u, COOKIE_DOMAIN)]

ProviderReached == [u \in FlowUrls |-> url_contains(u, Str(KW_linuxdo))]

TargetReached == [u \in FlowUrls |-> redirect_wait_matches(u, COOKIE_DOMAIN)]

\* Variant: the wait never gives up.
WaitExpired_never(polls, limit) == FALSE

\* a polling wait gives up once its polls are used up
WaitExpired(polls, limit) == polls + 1 >= limit

\* the poll count after one more poll, kept within 0..limit; a wait that
\* gives up at its limit never gets there
NextPoll(polls, limit) == (polls + 1) % (limit + 1)

\* the number of search strategies for the provider button (lines 596-627)
SearchStrategies == 3

\* lines 875 and 883: get_session_cookie(max_retries=3)
CookieCallRetries == 3

\* line 781-787: the policy of the form submit
SubmitPolicy == [max_retries |-> 3, base_delay |-> 1, backoff_factor |-> 2,
                 max_delay |-> DefaultMaxDelay, exceptions |-> ExceptionsNone,
                 op_kind |-> "async"]

\* where the flow reads the url or the tab list after a suspension
NavigationPoints == {"find", "wait_provider", "read_url", "reread_url", "after_submit",
                     "redirect_wait", "redirect_timeout"}

str_startswith(s, prefix) ==
    /\ Len(prefix) <= Len(s)
    /\ SubSeq(s, 1, Len(prefix)) = prefix

\* s.split(c, 1)[0] and s.split(c, 1)[1]
FirstIndex(s, c) == CHOOSE i \in 1..Len(s) : s[i] = c /\ \A j \in 1..(i - 1) : s[j] # c
Before(s, c) == IF c \in Range(s) THEN SubSeq(s, 1, FirstIndex(s, c) - 1) ELSE s
After(s, c) == IF c \in Range(s) THEN SubSeq(s, FirstIndex(s, c) + 1, Len(s)) ELSE <<>>

\* s.split(c)
RECURSIVE str_split(_, _)
str_split(s, c) ==
    IF c \in Range(s) THEN <<Before(s, c)>> \o str_split(After(s, c), c) ELSE <<s>>

KW_session_eq == <<"s", "e", "s", "s", "i", "o", "n", "=">>

\* lines 1155-1175: _parse_session_cookie of a str (or None)
parse_session_cookie(cookies_data) ==
    IF ~PyIsStr(cookies_data) THEN NoneVal
    ELSE LET s == cookies_data.s
         IN  IF str_startswith(s, KW_session_eq)
             THEN Str(Before(After(s, "="), ";"))
             ELSE IF "=" \notin Range(s) THEN cookies_data
             ELSE LET pieces == str_split(s, ";")
                      hits == {i \in 1..Len(pieces) :
                                 /\ "=" \in Range(pieces[i])
                                 /\ str_strip(Before(str_strip(pieces[i]), "="))
                                       = <<"s", "e", "s", "s", "i", "o", "n">>}
                  IN  IF hits = {} THEN cookies_data
                      ELSE Str(str_strip(After(str_strip(pieces[SetMin(hits)]), "=")))

\* the credentials an adapter is built with
UsernameInputs == {NoneVal, Str(<<>>), Str(<<"u">>)}
PasswordInputs == {NoneVal, Str(<<"p">>)}
FallbackInputs == {NoneVal, Str(KW_session_eq),
                   Str(<<"a", "=", "1", ";", " ">> \o KW_session_eq \o <<"v">>)}

\* _parse_session_cookie tabulated over the fallback inputs
ParsedFallback == [v \in FallbackInputs |-> parse_session_cookie(v)]

SessionValue == Str(<<"v">>)

NoRedirect == [how |-> "none", url |-> NoneVal, type |-> "OTHER"]

Happened(trace, e) == \E i \in 1..Len(trace) : trace[i] = e

\* position of the first occurrence of an event, 0 if it did not happen
FirstAt(trace, e) ==
    IF Happened(trace, e)
    THEN CHOOSE i \in 1..Len(trace) : trace[i] = e /\ \A j \in 1..(i - 1) : trace[j] # e
    ELSE 0

AdapterInit ==
    /\ a_cfg \in [username : UsernameInputs, password : PasswordInputs,
                  fallback : FallbackInputs]
    /\ a_login_method = "unknown"
    /\ a_client = "none"
    /\ a_session_cookie = NoneVal
    /\ a_browser = "none"
    /\ a_trace = <<>>
    /\ l_pc = "start"
    /\ l_oauth = "skipped"
    /\ l_ret = "none"
    /\ n_pc = "idle"
    /\ n_ret = "none"
    /\ n_oauth_success = FALSE
    /\ o_pc = "idle"
    /\ o_tab = 0
    /\ o_original_tab = 0
    /\ o_click_tabs = <<>>
    /\ o_url = NoneVal
    /\ o_url_type = "unset"
    /\ o_redirect = NoRedirect
    /\ o_count = 0
    /\ o_timeouts = {}
    /\ o_ret = "none"
    /\ o_why = "none"
    /\ o_exc = "none"
    /\ o_new_tab = 0
    /\ o_oauth_tab = 0
    /\ o_username_input = "unset"
    /\ o_password_input = "unset"
    /\ o_reads = 0

\* line 535: _login_to_linuxdo_first(tab); it catches its own exceptions and
\* its result is only logged
LoginToLinuxdoFirst ==
    /\ o_pc = "linuxdo_first"
    /\ \E u \in {current_url_of(t_tabs, o_tab), UrlLinuxdoLogin} :
       /\ t_tabs' = WithUrl(t_tabs, o_tab, u)
       /\ o_pc' = "navigate"
       /\ UNCHANGED <<avars, lvars, nvars, o_tab, o_original_tab,
                      o_click_tabs, o_url, o_url_type, o_redirect, o_count,
                      o_timeouts, o_ret, o_why, o_exc, o_new_tab,
                      o_oauth_tab, o_username_input, o_password_input,
                      o_reads, t_browser, t_next_id, t_initial_tabs,
                      t_initial_tab_count, t_record_ret, t_added, t_removed,
                      t_pc, t_polls, t_found>>

\* line 540: tab.get(self.login_url)
NavigateToLogin ==
    /\ o_pc = "navigate"
    /\ \/ /\ t_tabs' = WithUrl(t_tabs, o_tab, UrlSiteLogin)
          /\ o_pc' = "cloudflare1"
          /\ UNCHANGED <<avars, lvars, nvars, o_tab, o_original_tab,
                         o_click_tabs, o_url, o_url_type, o_redirect,
                         o_count, o_timeouts, o_ret, o_why, o_exc, o_new_tab,
                         o_oauth_tab, o_username_input, o_password_input,
                         o_reads, t_browser, t_next_id, t_initial_tabs,
                         t_initial_tab_count, t_record_ret, t_added,
                         t_removed, t_pc, t_polls, t_found>>
       \/ /\ o_pc' = "returned"
          /\ o_ret' = "raise"
          /\ o_why' = "exception"
          /\ o_exc' = o_pc
          /\ o_tab' = 0
          /\ o_original_tab' = 0
          /\ o_click_tabs' = <<>>
          /\ o_url' = NoneVal
          /\ o_url_type' = "unset"
          /\ o_redirect' = NoRedirect
          /\ o_count' = 0
          /\ t_initial_tabs' = <<>>
          /\ t_initial_tab_count' = 0
          /\ t_record_ret' = -1
          /\ t_added' = 0
          /\ t_found' = NoFound
          /\ o_new_tab' = 0
          /\ o_oauth_tab' = 0
          /\ o_username_input' = "unset"
          /\ o_password_input' = "unset"
          /\ o_reads' = 0
          /\ UNCHANGED <<avars, lvars, nvars, o_timeouts, t_browser, t_tabs,
                         t_next_id, t_removed, t_pc, t_polls>>

\* Variant: a Cloudflare wait that times out ends the flow.
WaitForCloudflare_fatal ==
    /\ o_pc \in {"cloudflare1", "cloudflare2"}
    /\ \/ /\ o_pc' = IF o_pc = "cloudflare1" THEN "register" ELSE "read_url"
          /\ UNCHANGED <<avars, lvars, nvars, o_tab, o_original_tab,
                         o_click_tabs, o_url, o_url_type, o_redirect,
                         o_count, o_timeouts, o_ret, o_why, o_exc, o_new_tab,
                         o_oauth_tab, o_username_input, o_password_input,
                         o_reads, tvars>>
       \/ /\ o_timeouts' = o_timeouts \cup {"cloudflare"}
          /\ o_pc' = "returned"
          /\ o_ret' = "False"
          /\ o_why' = "timeout"
          /\ o_tab' = 0
          /\ o_original_tab' = 0
          /\ o_click_tabs' = <<>>
          /\ o_url' = NoneVal
          /\ o_url_type' = "unset"
          /\ o_redirect' = NoRedirect
          /\ o_count' = 0
          /\ t_initial_tabs' = <<>>
          /\ t_initial_tab_count' = 0
          /\ t_record_ret' = -1
          /\ t_added' = 0
          /\ t_found' = NoFound
          /\ o_new_tab' = 0
          /\ o_oauth_tab' = 0
          /\ o_username_input' = "unset"
          /\ o_password_input' = "unset"
          /\ o_reads' = 0
          /\ UNCHANGED <<avars, lvars, nvars, o_exc, t_browser, t_tabs,
                         t_next_id, t_removed, t_pc, t_polls>>
       \/ /\ o_pc' = "returned"
          /\ o_ret' = "raise"
          /\ o_why' = "exception"
          /\ o_exc' = o_pc
          /\ o_tab' = 0
          /\ o_original_tab' = 0
          /\ o_click_tabs' = <<>>
          /\ o_url' = NoneVal
          /\ o_url_type' = "unset"
          /\ o_redirect' = NoRedirect
          /\ o_count' = 0
          /\ t_initial_tabs' = <<>>
          /\ t_initial_tab_count' = 0
          /\ t_record_ret' = -1
          /\ t_added' = 0
          /\ t_found' = NoFound
          /\ o_new_tab' = 0
          /\ o_oauth_tab' = 0
          /\ o_username_input' = "unset"
          /\ o_password_input' = "unset"
          /\ o_reads' = 0
          /\ UNCHANGED <<avars, lvars, nvars, o_timeouts, t_browser, t_tabs,
                         t_next_id, t_removed, t_pc, t_polls>>

\* lines 541 and 685: wait_for_cloudflare(timeout); the challenge clears, or
\* the wait times out and the flow goes on
WaitForCloudflare ==
    /\ o_pc \in {"cloudflare1", "cloudflare2"}
    /\ \/ /\ o_pc' = IF o_pc = "cloudflare1" THEN "register" ELSE "read_url"
          /\ UNCHANGED <<avars, lvars, nvars, o_tab, o_original_tab,
                         o_click_tabs, o_url, o_url_type, o_redirect,
                         o_count, o_timeouts, o_ret, o_why, o_exc, o_new_tab,
                         o_oauth_tab, o_username_input, o_password_input,
                         o_reads, tvars>>
       \/ /\ o_timeouts' = o_timeouts \cup {"cloudflare"}
          /\ o_pc' = IF o_pc = "cloudflare1" THEN "register" ELSE "read_url"
          /\ UNCHANGED <<avars, lvars, nvars, o_tab, o_original_tab,
                         o_click_tabs, o_url, o_url_type, o_redirect,
                         o_count, o_ret, o_why, o_exc, o_new_tab,
                         o_oauth_tab, o_username_input, o_password_input,
                         o_reads, tvars>>
       \/ /\ o_pc' = "returned"
          /\ o_ret' = "raise"
          /\ o_why' = "exception"
          /\ o_exc' = o_pc
          /\ o_tab' = 0
          /\ o_original_tab' = 0
          /\ o_click_tabs' = <<>>
          /\ o_url' = NoneVal
          /\ o_url_type' = "unset"
          /\ o_redirect' = NoRedirect
          /\ o_count' = 0
          /\ t_initial_tabs' = <<>>
          /\ t_initial_tab_count' = 0
          /\ t_record_ret' = -1
          /\ t_added' = 0
          /\ t_found' = NoFound
          /\ o_new_tab' = 0
          /\ o_oauth_tab' = 0
          /\ o_username_input' = "unset"
          /\ o_password_input' = "unset"
          /\ o_reads' = 0
          /\ UNCHANGED <<avars, lvars, nvars, o_timeouts, t_browser, t_tabs,
                         t_next_id, t_removed, t_pc, t_polls>>

\* lines 548-560: to the register page and back, exceptions caught
RegisterDetour ==
    /\ o_pc = "register"
    /\ o_pc' = "agreement"
    /\ UNCHANGED <<avars, lvars, nvars, o_tab, o_original_tab, o_click_tabs,
                   o_url, o_url_type, o_redirect, o_count, o_timeouts, o_ret,
                   o_why, o_exc, o_new_tab, o_oauth_tab, o_username_input,
                   o_password_input, o_reads, tvars>>

\* lines 563-576: tick the agreement if there is one, exceptions caught
AgreementCheckbox ==
    /\ o_pc = "agreement"
    /\ o_pc' = "search"
    /\ o_count' = 1
    /\ UNCHANGED <<avars, lvars, nvars, o_tab, o_original_tab, o_click_tabs,
                   o_url, o_url_type, o_redirect, o_timeouts, o_ret, o_why,
                   o_exc, o_new_tab, o_oauth_tab, o_username_input,
                   o_password_input, o_reads, tvars>>

\* Variant: with no control found the flow raises.
ButtonSearch_raises ==
    /\ o_pc = "search"
    /\ \/ /\ o_pc' = "record"
          /\ o_count' = 0
          /\ UNCHANGED <<avars, lvars, nvars, o_tab, o_original_tab,
                         o_click_tabs, o_url, o_url_type, o_redirect,
                         o_timeouts, o_ret, o_why, o_exc, o_new_tab,
                         o_oauth_tab, o_username_input, o_password_input,
                         o_reads, tvars>>
       \/ /\ o_count < SearchStrategies
          /\ o_count' = o_count + 1
          /\ UNCHANGED <<avars, lvars, nvars, o_pc, o_tab, o_original_tab,
                         o_click_tabs, o_url, o_url_type, o_redirect,
                         o_timeouts, o_ret, o_why, o_exc, o_new_tab,
                         o_oauth_tab, o_username_input, o_password_input,
                         o_reads, tvars>>
       \/ /\ o_count >= SearchStrategies
          /\ o_pc' = "returned"
          /\ o_ret' = "raise"
          /\ o_why' = "no_control"
          /\ o_count' = 0
          /\ o_tab' = 0
          /\ o_original_tab' = 0
          /\ o_click_tabs' = <<>>
          /\ o_url' = NoneVal
          /\ o_url_type' = "unset"
          /\ o_redirect' = NoRedirect
          /\ t_initial_tabs' = <<>>
          /\ t_initial_tab_count' = 0
          /\ t_record_ret' = -1
          /\ t_added' = 0
          /\ t_found' = NoFound
          /\ o_new_tab' = 0
          /\ o_oauth_tab' = 0
          /\ o_username_input' = "unset"
          /\ o_password_input' = "unset"
          /\ o_reads' = 0
          /\ UNCHANGED <<avars, lvars, nvars, o_timeouts, o_exc, t_browser,
                         t_tabs, t_next_id, t_removed, t_pc, t_polls>>

\* lines 596-641: search strategy o_count for the LinuxDO button; an exception
\* in a strategy is caught and counts as not found; after the last strategy
\* the flow returns False
ButtonSearch ==
    /\ o_pc = "search"
    /\ \/ /\ o_pc' = "record"
          /\ o_count' = 0
          /\ UNCHANGED <<avars, lvars, nvars, o_tab, o_original_tab,
                         o_click_tabs, o_url, o_url_type, o_redirect,
                         o_timeouts, o_ret, o_why, o_exc, o_new_tab,
                         o_oauth_tab, o_username_input, o_password_input,
                         o_reads, tvars>>
       \/ /\ o_count < SearchStrategies
          /\ o_count' = o_count + 1
          /\ UNCHANGED <<avars, lvars, nvars, o_pc, o_tab, o_original_tab,
                         o_click_tabs, o_url, o_url_type, o_redirect,
                         o_timeouts, o_ret, o_why, o_exc, o_new_tab,
                         o_oauth_tab, o_username_input, o_password_input,
                         o_reads, tvars>>
       \/ /\ o_count >= SearchStrategies
          /\ o_pc' = "returned"
          /\ o_ret' = "False"
          /\ o_why' = "no_control"
          /\ o_count' = 0
          /\ o_tab' = 0
          /\ o_original_tab' = 0
          /\ o_click_tabs' = <<>>
          /\ o_url' = NoneVal
          /\ o_url_type' = "unset"
          /\ o_redirect' = NoRedirect
          /\ t_initial_tabs' = <<>>
          /\ t_initial_tab_count' = 0
          /\ t_record_ret' = -1
          /\ t_added' = 0
          /\ t_found' = NoFound
          /\ o_new_tab' = 0
          /\ o_oauth_tab' = 0
          /\ o_username_input' = "unset"
          /\ o_password_input' = "unset"
          /\ o_reads' = 0
          /\ UNCHANGED <<avars, lvars, nvars, o_timeouts, o_exc, t_browser,
                         t_tabs, t_next_id, t_removed, t_pc, t_polls>>

\* Variant: the tabs are not recorded before the click.
RecordTabs_skipped ==
    /\ o_pc = "record"
    /\ o_pc' = "click"
    /\ UNCHANGED <<avars, lvars, nvars, o_tab, o_original_tab, o_click_tabs,
                   o_url, o_url_type, o_redirect, o_count, o_timeouts, o_ret,
                   o_why, o_exc, o_new_tab, o_oauth_tab, o_username_input,
                   o_password_input, o_reads, tvars>>

\* lines 644-645: tab_manager.record_tab_count()
RecordTabs ==
    /\ o_pc = "record"
    /\ t_initial_tabs' = RecordedIds(t_browser, t_tabs)
    /\ t_initial_tab_count' = RecordedCount(t_browser, t_tabs)
    /\ t_record_ret' = RecordedCount(t_browser, t_tabs)
    /\ t_added' = 0
    /\ a_trace' = Append(a_trace, "record_tab_count")
    /\ o_pc' = "click"
    /\ UNCHANGED <<a_cfg, a_login_method, a_client, a_session_cookie,
                   a_browser, lvars, nvars, o_tab, o_original_tab,
                   o_click_tabs, o_url, o_url_type, o_redirect, o_count,
                   o_timeouts, o_ret, o_why, o_exc, o_new_tab, o_oauth_tab,
                   o_username_input, o_password_input, o_reads, t_browser,
                   t_tabs, t_next_id, t_removed, t_pc, t_polls, t_found>>

\* lines 650-654: linuxdo_btn.click(), then original_tab = tab
ClickProviderButton ==
    /\ o_pc = "click"
    /\ \/ /\ a_trace' = Append(a_trace, "click")
          /\ o_original_tab' = o_tab
          /\ o_click_tabs' = TabIds(t_tabs)
          /\ o_pc' = "detect"
          /\ UNCHANGED <<a_cfg, a_login_method, a_client, a_session_cookie,
                         a_browser, lvars, nvars, o_tab, o_url, o_url_type,
                         o_redirect, o_count, o_timeouts, o_ret, o_why,
                         o_exc, o_new_tab, o_oauth_tab, o_username_input,
                         o_password_input, o_reads, tvars>>
       \/ /\ o_pc' = "returned"
          /\ o_ret' = "raise"
          /\ o_why' = "exception"
          /\ o_exc' = o_pc
          /\ o_tab' = 0
          /\ o_original_tab' = 0
          /\ o_click_tabs' = <<>>
          /\ o_url' = NoneVal
          /\ o_url_type' = "unset"
          /\ o_redirect' = NoRedirect
          /\ o_count' = 0
          /\ t_initial_tabs' = <<>>
          /\ t_initial_tab_count' = 0
          /\ t_record_ret' = -1
          /\ t_added' = 0
          /\ t_found' = NoFound
          /\ o_new_tab' = 0
          /\ o_oauth_tab' = 0
          /\ o_username_input' = "unset"
          /\ o_password_input' = "unset"
          /\ o_reads' = 0
          /\ UNCHANGED <<avars, lvars, nvars, o_timeouts, t_browser, t_tabs,
                         t_next_id, t_removed, t_pc, t_polls>>

\* line 658: tab_manager.detect_new_tab(timeout=8) is called
DetectNewTabCall ==
    /\ o_pc = "detect"
    /\ a_trace' = Append(a_trace, "detect_new_tab")
    /\ o_count' = 0
    /\ o_pc' = "detecting"
    /\ UNCHANGED <<a_cfg, a_login_method, a_client, a_session_cookie,
                   a_browser, lvars, nvars, o_tab, o_original_tab,
                   o_click_tabs, o_url, o_url_type, o_redirect, o_timeouts,
                   o_ret, o_why, o_exc, o_new_tab, o_oauth_tab,
                   o_username_input, o_password_input, o_reads, tvars>>

\* detect_new_tab: one poll; a new tab is returned, the poll is repeated, or
\* the timeout has passed and None is returned
DetectNewTabWait ==
    /\ o_pc = "detecting"
    /\ \/ /\ DetectResult(t_browser, t_tabs, t_initial_tabs) # NullTab
          /\ t_found' = [op |-> "detect",
                         tab |-> DetectResult(t_browser, t_tabs, t_initial_tabs),
                         added |-> t_added]
          /\ o_new_tab' = DetectResult(t_browser, t_tabs, t_initial_tabs).id
          /\ o_count' = 0
          /\ o_pc' = "switch"
          /\ UNCHANGED <<avars, lvars, nvars, o_tab, o_original_tab,
                         o_click_tabs, o_url, o_url_type, o_redirect,
                         o_timeouts, o_ret, o_why, o_exc, o_oauth_tab,
                         o_username_input, o_password_input, o_reads,
                         t_browser, t_tabs, t_next_id, t_initial_tabs,
                         t_initial_tab_count, t_record_ret, t_added,
                         t_removed, t_pc, t_polls>>
       \/ /\ DetectResult(t_browser, t_tabs, t_initial_tabs) = NullTab
          /\ ~WaitExpired(o_count, MaxPolls)
          /\ o_count' = NextPoll(o_count, MaxPolls)
          /\ UNCHANGED <<avars, lvars, nvars, o_pc, o_tab, o_original_tab,
                         o_click_tabs, o_url, o_url_type, o_redirect,
                         o_timeouts, o_ret, o_why, o_exc, o_new_tab,
                         o_oauth_tab, o_username_input, o_password_input,
                         o_reads, tvars>>
       \/ /\ DetectResult(t_browser, t_tabs, t_initial_tabs) = NullTab
          /\ WaitExpired(o_count, MaxPolls)
          /\ o_timeouts' = o_timeouts \cup {"new_tab"}
          /\ o_count' = 0
          /\ o_pc' = "find"
          /\ UNCHANGED <<avars, lvars, nvars, o_tab, o_original_tab,
                         o_click_tabs, o_url, o_url_type, o_redirect, o_ret,
                         o_why, o_exc, o_new_tab, o_oauth_tab,
                         o_username_input, o_password_input, o_reads, tvars>>
       \/ /\ o_pc' = "returned"
          /\ o_ret' = "raise"
          /\ o_why' = "exception"
          /\ o_exc' = o_pc
          /\ o_tab' = 0
          /\ o_original_tab' = 0
          /\ o_click_tabs' = <<>>
          /\ o_url' = NoneVal
          /\ o_url_type' = "unset"
          /\ o_redirect' = NoRedirect
          /\ o_count' = 0
          /\ t_initial_tabs' = <<>>
          /\ t_initial_tab_count' = 0
          /\ t_record_ret' = -1
          /\ t_added' = 0
          /\ t_found' = NoFound
          /\ o_new_tab' = 0
          /\ o_oauth_tab' = 0
          /\ o_username_input' = "unset"
          /\ o_password_input' = "unset"
          /\ o_reads' = 0
          /\ UNCHANGED <<avars, lvars, nvars, o_timeouts, t_browser, t_tabs,
                         t_next_id, t_removed, t_pc, t_polls>>

\* Variant: the tab found is switched to but the flow goes on with its old tab.
SwitchToTab_keeps_tab ==
    /\ o_pc = "switch"
    /\ \/ /\ a_trace' = Append(a_trace, "switch_to_tab")
          /\ o_pc' = "cloudflare2"
          /\ UNCHANGED <<a_cfg, a_login_method, a_client, a_session_cookie,
                         a_browser, lvars, nvars, o_tab, o_original_tab,
                         o_click_tabs, o_url, o_url_type, o_redirect,
                         o_count, o_timeouts, o_ret, o_why, o_exc, o_new_tab,
                         o_oauth_tab, o_username_input, o_password_input,
                         o_reads, tvars>>
       \/ /\ o_pc' = "returned"
          /\ o_ret' = "raise"
          /\ o_why' = "exception"
          /\ o_exc' = o_pc
          /\ o_tab' = 0
          /\ o_original_tab' = 0
          /\ o_click_tabs' = <<>>
          /\ o_url' = NoneVal
          /\ o_url_type' = "unset"
          /\ o_redirect' = NoRedirect
          /\ o_count' = 0
          /\ t_initial_tabs' = <<>>
          /\ t_initial_tab_count' = 0
          /\ t_record_ret' = -1
          /\ t_added' = 0
          /\ t_found' = NoFound
          /\ o_new_tab' = 0
          /\ o_oauth_tab' = 0
          /\ o_username_input' = "unset"
          /\ o_password_input' = "unset"
          /\ o_reads' = 0
          /\ UNCHANGED <<avars, lvars, nvars, o_timeouts, t_browser, t_tabs,
                         t_next_id, t_removed, t_pc, t_polls>>

\* lines 663-664 and 673-674: switch_to_tab(the tab found), tab = that tab
SwitchToTab ==
    /\ o_pc = "switch"
    /\ \/ /\ a_trace' = Append(a_trace, "switch_to_tab")
          /\ o_tab' = t_found.tab.id
          /\ o_pc' = "cloudflare2"
          /\ UNCHANGED <<a_cfg, a_login_method, a_client, a_session_cookie,
                         a_browser, lvars, nvars, o_original_tab,
                         o_click_tabs, o_url, o_url_type, o_redirect,
                         o_count, o_timeouts, o_ret, o_why, o_exc, o_new_tab,
                         o_oauth_tab, o_username_input, o_password_input,
                         o_reads, tvars>>
       \/ /\ o_pc' = "returned"
          /\ o_ret' = "raise"
          /\ o_why' = "exception"
          /\ o_exc' = o_pc
          /\ o_tab' = 0
          /\ o_original_tab' = 0
          /\ o_click_tabs' = <<>>
          /\ o_url' = NoneVal
          /\ o_url_type' = "unset"
          /\ o_redirect' = NoRedirect
          /\ o_count' = 0
          /\ t_initial_tabs' = <<>>
          /\ t_initial_tab_count' = 0
          /\ t_record_ret' = -1
          /\ t_added' = 0
          /\ t_found' = NoFound
          /\ o_new_tab' = 0
          /\ o_oauth_tab' = 0
          /\ o_username_input' = "unset"
          /\ o_password_input' = "unset"
          /\ o_reads' = 0
          /\ UNCHANGED <<avars, lvars, nvars, o_timeouts, t_browser, t_tabs,
                         t_next_id, t_removed, t_pc, t_polls>>

\* lines 670-677: find_oauth_tab(); a tab other than the current one is
\* switched to, otherwise the flow waits on the current tab
FindOAuthTabCall ==
    /\ o_pc = "find"
    /\ \/ /\ FindResult(t_browser, t_tabs) # NullTab
          /\ FindResult(t_browser, t_tabs).id # o_tab
          /\ a_trace' = Append(a_trace, "find_oauth_tab")
          /\ t_found' = [op |-> "find", tab |-> FindResult(t_browser, t_tabs), added |-> 0]
          /\ o_oauth_tab' = FindResult(t_browser, t_tabs).id
          /\ o_pc' = "switch"
          /\ UNCHANGED <<a_cfg, a_login_method, a_client, a_session_cookie,
                         a_browser, lvars, nvars, o_tab, o_original_tab,
                         o_click_tabs, o_url, o_url_type, o_redirect,
                         o_count, o_timeouts, o_ret, o_why, o_exc, o_new_tab,
                         o_username_input, o_password_input, o_reads,
                         t_browser, t_tabs, t_next_id, t_initial_tabs,
                         t_initial_tab_count, t_record_ret, t_added,
                         t_removed, t_pc, t_polls>>
       \/ /\ \/ FindResult(t_browser, t_tabs) = NullTab
             \/ FindResult(t_browser, t_tabs).id = o_tab
          /\ a_trace' = Append(a_trace, "find_oauth_tab")
          /\ o_oauth_tab' = FindResult(t_browser, t_tabs).id
          /\ o_count' = 0
          /\ o_pc' = "wait_provider"
          /\ UNCHANGED <<a_cfg, a_login_method, a_client, a_session_cookie,
                         a_browser, lvars, nvars, o_tab, o_original_tab,
                         o_click_tabs, o_url, o_url_type, o_redirect,
                         o_timeouts, o_ret, o_why, o_exc, o_new_tab,
                         o_username_input, o_password_input, o_reads, tvars>>
       \/ /\ o_pc' = "returned"
          /\ o_ret' = "raise"
          /\ o_why' = "exception"
          /\ o_exc' = o_pc
          /\ o_tab' = 0
          /\ o_original_tab' = 0
          /\ o_click_tabs' = <<>>
          /\ o_url' = NoneVal
          /\ o_url_type' = "unset"
          /\ o_redirect' = NoRedirect
          /\ o_count' = 0
          /\ t_initial_tabs' = <<>>
          /\ t_initial_tab_count' = 0
          /\ t_record_ret' = -1
          /\ t_added' = 0
          /\ t_found' = NoFound
          /\ o_new_tab' = 0
          /\ o_oauth_tab' = 0
          /\ o_username_input' = "unset"
          /\ o_password_input' = "unset"
          /\ o_reads' = 0
          /\ UNCHANGED <<avars, lvars, nvars, o_timeouts, t_browser, t_tabs,
                         t_next_id, t_removed, t_pc, t_polls>>

\* lines 678-682: wait_for_url_contains("linux.do", timeout=15), one poll;
\* TimeoutError is caught, any other exception is not
WaitForProvider ==
    /\ o_pc = "wait_provider"
    /\ \/ /\ ProviderReached[current_url_of(t_tabs, o_tab)]
          /\ o_count' = 0
          /\ o_pc' = "cloudflare2"
          /\ UNCHANGED <<avars, lvars, nvars, o_tab, o_original_tab,
                         o_click_tabs, o_url, o_url_type, o_redirect,
                         o_timeouts, o_ret, o_why, o_exc, o_new_tab,
                         o_oauth_tab, o_username_input, o_password_input,
                         o_reads, tvars>>
       \/ /\ ~ProviderReached[current_url_of(t_tabs, o_tab)]
          /\ ~WaitExpired(o_count, MaxUrlPolls)
          /\ o_count' = NextPoll(o_count, MaxUrlPolls)
          /\ UNCHANGED <<avars, lvars, nvars, o_pc, o_tab, o_original_tab,
                         o_click_tabs, o_url, o_url_type, o_redirect,
                         o_timeouts, o_ret, o_why, o_exc, o_new_tab,
                         o_oauth_tab, o_username_input, o_password_input,
                         o_reads, tvars>>
       \/ /\ ~ProviderReached[current_url_of(t_tabs, o_tab)]
          /\ WaitExpired(o_count, MaxUrlPolls)
          /\ o_timeouts' = o_timeouts \cup {"to_provider"}
          /\ o_count' = 0
          /\ o_pc' = "cloudflare2"
          /\ UNCHANGED <<avars, lvars, nvars, o_tab, o_original_tab,
                         o_click_tabs, o_url, o_url_type, o_redirect, o_ret,
                         o_why, o_exc, o_new_tab, o_oauth_tab,
                         o_username_input, o_password_input, o_reads, tvars>>
       \/ /\ o_pc' = "returned"
          /\ o_ret' = "raise"
          /\ o_why' = "exception"
          /\ o_exc' = o_pc
          /\ o_tab' = 0
          /\ o_original_tab' = 0
          /\ o_click_tabs' = <<>>
          /\ o_url' = NoneVal
          /\ o_url_type' = "unset"
          /\ o_redirect' = NoRedirect
          /\ o_count' = 0
          /\ t_initial_tabs' = <<>>
          /\ t_initial_tab_count' = 0
          /\ t_record_ret' = -1
          /\ t_added' = 0
          /\ t_found' = NoFound
          /\ o_new_tab' = 0
          /\ o_oauth_tab' = 0
          /\ o_username_input' = "unset"
          /\ o_password_input' = "unset"
          /\ o_reads' = 0
          /\ UNCHANGED <<avars, lvars, nvars, o_timeouts, t_browser, t_tabs,
                         t_next_id, t_removed, t_pc, t_polls>>

\* lines 691-712: current_url = get_current_url(), url_type = classify_oauth_url(...)
\* and the branch on it
ReadUrl ==
    /\ o_pc = "read_url"
    /\ \/ /\ o_url' = current_url_of(t_tabs, o_tab)
          /\ o_url_type' = ClassifiedUrl[current_url_of(t_tabs, o_tab)]
          /\ o_count' = 0
          /\ o_pc' = IF ClassifiedUrl[current_url_of(t_tabs, o_tab)] = "AUTHORIZATION" THEN "authorize_page"
                     ELSE IF ClassifiedUrl[current_url_of(t_tabs, o_tab)] = "LINUXDO_LOGIN" THEN "login_form"
                     ELSE "redirect_wait"
          /\ UNCHANGED <<avars, lvars, nvars, o_tab, o_original_tab,
                         o_click_tabs, o_redirect, o_timeouts, o_ret, o_why,
                         o_exc, o_new_tab, o_oauth_tab, o_username_input,
                         o_password_input, o_reads, tvars>>
       \/ /\ o_pc' = "returned"
          /\ o_ret' = "raise"
          /\ o_why' = "exception"
          /\ o_exc' = o_pc
          /\ o_tab' = 0
          /\ o_original_tab' = 0
          /\ o_click_tabs' = <<>>
          /\ o_url' = NoneVal
          /\ o_url_type' = "unset"
          /\ o_redirect' = NoRedirect
          /\ o_count' = 0
          /\ t_initial_tabs' = <<>>
          /\ t_initial_tab_count' = 0
          /\ t_record_ret' = -1
          /\ t_added' = 0
          /\ t_found' = NoFound
          /\ o_new_tab' = 0
          /\ o_oauth_tab' = 0
          /\ o_username_input' = "unset"
          /\ o_password_input' = "unset"
          /\ o_reads' = 0
          /\ UNCHANGED <<avars, lvars, nvars, o_timeouts, t_browser, t_tabs,
                         t_next_id, t_removed, t_pc, t_polls>>

\* Variant: without an allow button the flow returns False.
HandleAuthorizationPage_fatal ==
    /\ o_pc = "authorize_page"
    /\ \/ /\ a_trace' = Append(a_trace, "click_authorize")
          /\ o_pc' = "reread_url"
          /\ UNCHANGED <<a_cfg, a_login_method, a_client, a_session_cookie,
                         a_browser, lvars, nvars, o_tab, o_original_tab,
                         o_click_tabs, o_url, o_url_type, o_redirect,
                         o_count, o_timeouts, o_ret, o_why, o_exc, o_new_tab,
                         o_oauth_tab, o_username_input, o_password_input,
                         o_reads, tvars>>
       \/ /\ o_pc' = "returned"
          /\ o_ret' = "False"
          /\ o_why' = "no_control"
          /\ o_tab' = 0
          /\ o_original_tab' = 0
          /\ o_click_tabs' = <<>>
          /\ o_url' = NoneVal
          /\ o_url_type' = "unset"
          /\ o_redirect' = NoRedirect
          /\ o_count' = 0
          /\ t_initial_tabs' = <<>>
          /\ t_initial_tab_count' = 0
          /\ t_record_ret' = -1
          /\ t_added' = 0
          /\ t_found' = NoFound
          /\ o_new_tab' = 0
          /\ o_oauth_tab' = 0
          /\ o_username_input' = "unset"
          /\ o_password_input' = "unset"
          /\ o_reads' = 0
          /\ UNCHANGED <<avars, lvars, nvars, o_timeouts, o_exc, t_browser,
                         t_tabs, t_next_id, t_removed, t_pc, t_polls>>

\* lines 700-710, 387-514: _handle_authorization_page: the allow button is found
\* and clicked, it returns True and the url is read again; or no button is
\* found (or an exception is caught), it returns False and the flow goes on
HandleAuthorizationPage ==
    /\ o_pc = "authorize_page"
    /\ \/ /\ a_trace' = Append(a_trace, "click_authorize")
          /\ o_pc' = "reread_url"
          /\ UNCHANGED <<a_cfg, a_login_method, a_client, a_session_cookie,
                         a_browser, lvars, nvars, o_tab, o_original_tab,
                         o_click_tabs, o_url, o_url_type, o_redirect,
                         o_count, o_timeouts, o_ret, o_why, o_exc, o_new_tab,
                         o_oauth_tab, o_username_input, o_password_input,
                         o_reads, tvars>>
       \/ /\ o_pc' = "redirect_wait"
          /\ UNCHANGED <<avars, lvars, nvars, o_tab, o_original_tab,
                         o_click_tabs, o_url, o_url_type, o_redirect,
                         o_count, o_timeouts, o_ret, o_why, o_exc, o_new_tab,
                         o_oauth_tab, o_username_input, o_password_input,
                         o_reads, tvars>>

\* lines 708-709
RereadUrl ==
    /\ o_pc = "reread_url"
    /\ \/ /\ o_url' = current_url_of(t_tabs, o_tab)
          /\ o_url_type' = ClassifiedUrl[current_url_of(t_tabs, o_tab)]
          /\ o_pc' = "redirect_wait"
          /\ UNCHANGED <<avars, lvars, nvars, o_tab, o_original_tab,
                         o_click_tabs, o_redirect, o_count, o_timeouts,
                         o_ret, o_why, o_exc, o_new_tab, o_oauth_tab,
                         o_username_input, o_password_input, o_reads, tvars>>
       \/ /\ o_pc' = "returned"
          /\ o_ret' = "raise"
          /\ o_why' = "exception"
          /\ o_exc' = o_pc
          /\ o_tab' = 0
          /\ o_original_tab' = 0
          /\ o_click_tabs' = <<>>
          /\ o_url' = NoneVal
          /\ o_url_type' = "unset"
          /\ o_redirect' = NoRedirect
          /\ o_count' = 0
          /\ t_initial_tabs' = <<>>
          /\ t_initial_tab_count' = 0
          /\ t_record_ret' = -1
          /\ t_added' = 0
          /\ t_found' = NoFound
          /\ o_new_tab' = 0
          /\ o_oauth_tab' = 0
          /\ o_username_input' = "unset"
          /\ o_password_input' = "unset"
          /\ o_reads' = 0
          /\ UNCHANGED <<avars, lvars, nvars, o_timeouts, t_browser, t_tabs,
                         t_next_id, t_removed, t_pc, t_polls>>

\* lines 718-741 and 841-842: wait for the form, look for the user name field and
\* fill it; without the field, or on an exception (caught), the flow goes on to
\* the redirect wait
LoginForm ==
    /\ o_pc = "login_form"
    /\ \/ /\ o_username_input' = "filled"
          /\ o_pc' = "fill_password"
          /\ UNCHANGED <<avars, lvars, nvars, o_tab, o_original_tab,
                         o_click_tabs, o_url, o_url_type, o_redirect,
                         o_count, o_timeouts, o_ret, o_why, o_exc, o_new_tab,
                         o_oauth_tab, o_password_input, o_reads, tvars>>
       \/ /\ o_pc' = "redirect_wait"
          /\ UNCHANGED <<avars, lvars, nvars, o_tab, o_original_tab,
                         o_click_tabs, o_url, o_url_type, o_redirect,
                         o_count, o_timeouts, o_ret, o_why, o_exc, o_new_tab,
                         o_oauth_tab, o_username_input, o_password_input,
                         o_reads, tvars>>

\* lines 744-754 and 841-842: look for the password field and fill it if it is
\* there; the submit follows with or without it; an exception is caught
FillPassword ==
    /\ o_pc = "fill_password"
    /\ \/ /\ o_password_input' = "filled"
          /\ o_count' = 0
          /\ o_pc' = "submit"
          /\ UNCHANGED <<avars, lvars, nvars, o_tab, o_original_tab,
                         o_click_tabs, o_url, o_url_type, o_redirect,
                         o_timeouts, o_ret, o_why, o_exc, o_new_tab,
                         o_oauth_tab, o_username_input, o_reads, tvars>>
       \/ /\ o_password_input' = "none"
          /\ o_count' = 0
          /\ o_pc' = "submit"
          /\ UNCHANGED <<avars, lvars, nvars, o_tab, o_original_tab,
                         o_click_tabs, o_url, o_url_type, o_redirect,
                         o_timeouts, o_ret, o_why, o_exc, o_new_tab,
                         o_oauth_tab, o_username_input, o_reads, tvars>>
       \/ /\ o_username_input' = "unset"
          /\ o_pc' = "redirect_wait"
          /\ UNCHANGED <<avars, lvars, nvars, o_tab, o_original_tab,
                         o_click_tabs, o_url, o_url_type, o_redirect,
                         o_count, o_timeouts, o_ret, o_why, o_exc, o_new_tab,
                         o_oauth_tab, o_password_input, o_reads, tvars>>

\* lines 757-791: retry_async_operation(submit_login_form, max_retries=3); one
\* attempt: it succeeds, or fails and is retried, or fails for the last time,
\* which is caught at line 788
SubmitLoginForm ==
    /\ o_pc = "submit"
    /\ \/ /\ o_count' = 0
          /\ o_username_input' = "unset"
          /\ o_password_input' = "unset"
          /\ o_pc' = "after_submit"
          /\ UNCHANGED <<avars, lvars, nvars, o_tab, o_original_tab,
                         o_click_tabs, o_url, o_url_type, o_redirect,
                         o_timeouts, o_ret, o_why, o_exc, o_new_tab,
                         o_oauth_tab, o_reads, tvars>>
       \/ /\ LoopNext(SubmitPolicy, o_count + 1) = "attempt"
          /\ o_count' = o_count + 1
          /\ UNCHANGED <<avars, lvars, nvars, o_pc, o_tab, o_original_tab,
                         o_click_tabs, o_url, o_url_type, o_redirect,
                         o_timeouts, o_ret, o_why, o_exc, o_new_tab,
                         o_oauth_tab, o_username_input, o_password_input,
                         o_reads, tvars>>
       \/ /\ LoopNext(SubmitPolicy, o_count + 1) # "attempt"
          /\ o_count' = 0
          /\ o_username_input' = "unset"
          /\ o_password_input' = "unset"
          /\ o_pc' = "after_submit"
          /\ UNCHANGED <<avars, lvars, nvars, o_tab, o_original_tab,
                         o_click_tabs, o_url, o_url_type, o_redirect,
                         o_timeouts, o_ret, o_why, o_exc, o_new_tab,
                         o_oauth_tab, o_reads, tvars>>

\* lines 794-797 and 841-842: read and classify the url; an exception is caught
AfterSubmit ==
    /\ o_pc = "after_submit"
    /\ \/ /\ o_url' = current_url_of(t_tabs, o_tab)
          /\ o_url_type' = ClassifiedUrl[current_url_of(t_tabs, o_tab)]
          /\ o_pc' = IF ClassifiedUrl[current_url_of(t_tabs, o_tab)] = "AUTHORIZATION" THEN "authorize_click" ELSE "redirect_wait"
          /\ UNCHANGED <<avars, lvars, nvars, o_tab, o_original_tab,
                         o_click_tabs, o_redirect, o_count, o_timeouts,
                         o_ret, o_why, o_exc, o_new_tab, o_oauth_tab,
                         o_username_input, o_password_input, o_reads, tvars>>
       \/ /\ o_pc' = "redirect_wait"
          /\ UNCHANGED <<avars, lvars, nvars, o_tab, o_original_tab,
                         o_click_tabs, o_url, o_url_type, o_redirect,
                         o_count, o_timeouts, o_ret, o_why, o_exc, o_new_tab,
                         o_oauth_tab, o_username_input, o_password_input,
                         o_reads, tvars>>

\* lines 799-842: look for the allow button and click it; not found or an
\* exception (caught): go on
AuthorizeClick ==
    /\ o_pc = "authorize_click"
    /\ \/ /\ a_trace' = Append(a_trace, "click_authorize")
          /\ o_pc' = "redirect_wait"
          /\ UNCHANGED <<a_cfg, a_login_method, a_client, a_session_cookie,
                         a_browser, lvars, nvars, o_tab, o_original_tab,
                         o_click_tabs, o_url, o_url_type, o_redirect,
                         o_count, o_timeouts, o_ret, o_why, o_exc, o_new_tab,
                         o_oauth_tab, o_username_input, o_password_input,
                         o_reads, tvars>>
       \/ /\ o_pc' = "redirect_wait"
          /\ UNCHANGED <<avars, lvars, nvars, o_tab, o_original_tab,
                         o_click_tabs, o_url, o_url_type, o_redirect,
                         o_count, o_timeouts, o_ret, o_why, o_exc, o_new_tab,
                         o_oauth_tab, o_username_input, o_password_input,
                         o_reads, tvars>>

\* lines 846-865: wait_for_url_contains(self.COOKIE_DOMAIN, timeout=30), one poll;
\* on a match the url is classified, which is only logged
RedirectWait ==
    /\ o_pc = "redirect_wait"
    /\ \/ /\ TargetReached[current_url_of(t_tabs, o_tab)]
          /\ o_url' = current_url_of(t_tabs, o_tab)
          /\ o_url_type' = ClassifiedUrl[current_url_of(t_tabs, o_tab)]
          /\ o_redirect' = [how |-> "match", url |-> current_url_of(t_tabs, o_tab),
                            type |-> ClassifiedUrl[current_url_of(t_tabs, o_tab)]]
          /\ o_count' = 0
          /\ o_pc' = "cookie1"
          /\ UNCHANGED <<avars, lvars, nvars, o_tab, o_original_tab,
                         o_click_tabs, o_timeouts, o_ret, o_why, o_exc,
                         o_new_tab, o_oauth_tab, o_username_input,
                         o_password_input, o_reads, tvars>>
       \/ /\ ~TargetReached[current_url_of(t_tabs, o_tab)]
          /\ ~WaitExpired(o_count, MaxUrlPolls)
          /\ o_count' = NextPoll(o_count, MaxUrlPolls)
          /\ UNCHANGED <<avars, lvars, nvars, o_pc, o_tab, o_original_tab,
                         o_click_tabs, o_url, o_url_type, o_redirect,
                         o_timeouts, o_ret, o_why, o_exc, o_new_tab,
                         o_oauth_tab, o_username_input, o_password_input,
                         o_reads, tvars>>
       \/ /\ ~TargetReached[current_url_of(t_tabs, o_tab)]
          /\ WaitExpired(o_count, MaxUrlPolls)
          /\ o_timeouts' = o_timeouts \cup {"redirect"}
          /\ o_count' = 0
          /\ o_pc' = "redirect_timeout"
          /\ UNCHANGED <<avars, lvars, nvars, o_tab, o_original_tab,
                         o_click_tabs, o_url, o_url_type, o_redirect, o_ret,
                         o_why, o_exc, o_new_tab, o_oauth_tab,
                         o_username_input, o_password_input, o_reads, tvars>>
       \/ /\ o_pc' = "returned"
          /\ o_ret' = "raise"
          /\ o_why' = "exception"
          /\ o_exc' = o_pc
          /\ o_tab' = 0
          /\ o_original_tab' = 0
          /\ o_click_tabs' = <<>>
          /\ o_url' = NoneVal
          /\ o_url_type' = "unset"
          /\ o_redirect' = NoRedirect
          /\ o_count' = 0
          /\ t_initial_tabs' = <<>>
          /\ t_initial_tab_count' = 0
          /\ t_record_ret' = -1
          /\ t_added' = 0
          /\ t_found' = NoFound
          /\ o_new_tab' = 0
          /\ o_oauth_tab' = 0
          /\ o_username_input' = "unset"
          /\ o_password_input' = "unset"
          /\ o_reads' = 0
          /\ UNCHANGED <<avars, lvars, nvars, o_timeouts, t_browser, t_tabs,
                         t_next_id, t_removed, t_pc, t_polls>>

\* lines 863-868: after the TimeoutError the url is read once more
RedirectTimeoutRead ==
    /\ o_pc = "redirect_timeout"
    /\ \/ /\ o_url' = current_url_of(t_tabs, o_tab)
          /\ o_redirect' = [how |-> "timeout", url |-> current_url_of(t_tabs, o_tab),
                            type |-> ClassifiedUrl[current_url_of(t_tabs, o_tab)]]
          /\ o_pc' = "cookie1"
          /\ UNCHANGED <<avars, lvars, nvars, o_tab, o_original_tab,
                         o_click_tabs, o_url_type, o_count, o_timeouts,
                         o_ret, o_why, o_exc, o_new_tab, o_oauth_tab,
                         o_username_input, o_password_input, o_reads, tvars>>
       \/ /\ o_pc' = "returned"
          /\ o_ret' = "raise"
          /\ o_why' = "exception"
          /\ o_exc' = o_pc
          /\ o_tab' = 0
          /\ o_original_tab' = 0
          /\ o_click_tabs' = <<>>
          /\ o_url' = NoneVal
          /\ o_url_type' = "unset"
          /\ o_redirect' = NoRedirect
          /\ o_count' = 0
          /\ t_initial_tabs' = <<>>
          /\ t_initial_tab_count' = 0
          /\ t_record_ret' = -1
          /\ t_added' = 0
          /\ t_found' = NoFound
          /\ o_new_tab' = 0
          /\ o_oauth_tab' = 0
          /\ o_username_input' = "unset"
          /\ o_password_input' = "unset"
          /\ o_reads' = 0
          /\ UNCHANGED <<avars, lvars, nvars, o_timeouts, t_browser, t_tabs,
                         t_next_id, t_removed, t_pc, t_polls>>

\* Variant: without a cookie the flow goes on to the client.
GetSessionCookie_goes_on ==
    /\ o_pc \in {"cookie1", "cookie2"}
    /\ \/ /\ a_trace' = IF o_count = 0 THEN Append(a_trace, "get_session_cookie") ELSE a_trace
          /\ a_session_cookie' = SessionValue
          /\ o_reads' = o_reads + 1
          /\ o_count' = 0
          /\ o_pc' = "user_id"
          /\ UNCHANGED <<a_cfg, a_login_method, a_client, a_browser, lvars,
                         nvars, o_tab, o_original_tab, o_click_tabs, o_url,
                         o_url_type, o_redirect, o_timeouts, o_ret, o_why,
                         o_exc, o_new_tab, o_oauth_tab, o_username_input,
                         o_password_input, tvars>>
       \/ /\ CookieLoopContinues(o_count + 1, CookieCallRetries)
          /\ a_trace' = IF o_count = 0 THEN Append(a_trace, "get_session_cookie") ELSE a_trace
          /\ o_reads' = o_reads + 1
          /\ o_count' = o_count + 1
          /\ UNCHANGED <<a_cfg, a_login_method, a_client, a_session_cookie,
                         a_browser, lvars, nvars, o_pc, o_tab,
                         o_original_tab, o_click_tabs, o_url, o_url_type,
                         o_redirect, o_timeouts, o_ret, o_why, o_exc,
                         o_new_tab, o_oauth_tab, o_username_input,
                         o_password_input, tvars>>
       \/ /\ ~CookieLoopContinues(o_count + 1, CookieCallRetries)
          /\ o_pc = "cookie1" /\ o_tab # o_original_tab
          /\ a_trace' = IF o_count = 0 THEN Append(a_trace, "get_session_cookie") ELSE a_trace
          /\ a_session_cookie' = NoneVal
          /\ o_reads' = o_reads + 1
          /\ o_count' = 0
          /\ o_pc' = "switch_back"
          /\ UNCHANGED <<a_cfg, a_login_method, a_client, a_browser, lvars,
                         nvars, o_tab, o_original_tab, o_click_tabs, o_url,
                         o_url_type, o_redirect, o_timeouts, o_ret, o_why,
                         o_exc, o_new_tab, o_oauth_tab, o_username_input,
                         o_password_input, tvars>>
       \/ /\ ~CookieLoopContinues(o_count + 1, CookieCallRetries)
          /\ o_pc = "cookie2" \/ o_tab = o_original_tab
          /\ a_trace' = IF o_count = 0 THEN Append(a_trace, "get_session_cookie") ELSE a_trace
          /\ a_session_cookie' = NoneVal
          /\ o_reads' = o_reads + 1
          /\ o_count' = 0
          /\ o_pc' = "user_id"
          /\ UNCHANGED <<a_cfg, a_login_method, a_client, a_browser, lvars,
                         nvars, o_tab, o_original_tab, o_click_tabs, o_url,
                         o_url_type, o_redirect, o_timeouts, o_ret, o_why,
                         o_exc, o_new_tab, o_oauth_tab, o_username_input,
                         o_password_input, tvars>>
       \/ /\ o_pc' = "returned"
          /\ o_ret' = "raise"
          /\ o_why' = "exception"
          /\ o_exc' = o_pc
          /\ o_tab' = 0
          /\ o_original_tab' = 0
          /\ o_click_tabs' = <<>>
          /\ o_url' = NoneVal
          /\ o_url_type' = "unset"
          /\ o_redirect' = NoRedirect
          /\ o_count' = 0
          /\ t_initial_tabs' = <<>>
          /\ t_initial_tab_count' = 0
          /\ t_record_ret' = -1
          /\ t_added' = 0
          /\ t_found' = NoFound
          /\ o_new_tab' = 0
          /\ o_oauth_tab' = 0
          /\ o_username_input' = "unset"
          /\ o_password_input' = "unset"
          /\ o_reads' = 0
          /\ UNCHANGED <<avars, lvars, nvars, o_timeouts, t_browser, t_tabs,
                         t_next_id, t_removed, t_pc, t_polls>>

\* Variant: the cookie is looked for a second time whether or not the flow changed tabs.
GetSessionCookie_always_again ==
    /\ o_pc \in {"cookie1", "cookie2"}
    /\ \/ /\ a_trace' = IF o_count = 0 THEN Append(a_trace, "get_session_cookie") ELSE a_trace
          /\ a_session_cookie' = SessionValue
          /\ o_reads' = o_reads + 1
          /\ o_count' = 0
          /\ o_pc' = "user_id"
          /\ UNCHANGED <<a_cfg, a_login_method, a_client, a_browser, lvars,
                         nvars, o_tab, o_original_tab, o_click_tabs, o_url,
                         o_url_type, o_redirect, o_timeouts, o_ret, o_why,
                         o_exc, o_new_tab, o_oauth_tab, o_username_input,
                         o_password_input, tvars>>
       \/ /\ CookieLoopContinues(o_count + 1, CookieCallRetries)
          /\ a_trace' = IF o_count = 0 THEN Append(a_trace, "get_session_cookie") ELSE a_trace
          /\ o_reads' = o_reads + 1
          /\ o_count' = o_count + 1
          /\ UNCHANGED <<a_cfg, a_login_method, a_client, a_session_cookie,
                         a_browser, lvars, nvars, o_pc, o_tab,
                         o_original_tab, o_click_tabs, o_url, o_url_type,
                         o_redirect, o_timeouts, o_ret, o_why, o_exc,
                         o_new_tab, o_oauth_tab, o_username_input,
                         o_password_input, tvars>>
       \/ /\ ~CookieLoopContinues(o_count + 1, CookieCallRetries)
          /\ o_pc = "cookie1"
          /\ a_trace' = IF o_count = 0 THEN Append(a_trace, "get_session_cookie") ELSE a_trace
          /\ a_session_cookie' = NoneVal
          /\ o_reads' = o_reads + 1
          /\ o_count' = 0
          /\ o_pc' = "switch_back"
          /\ UNCHANGED <<a_cfg, a_login_method, a_client, a_browser, lvars,
                         nvars, o_tab, o_original_tab, o_click_tabs, o_url,
                         o_url_type, o_redirect, o_timeouts, o_ret, o_why,
                         o_exc, o_new_tab, o_oauth_tab, o_username_input,
                         o_password_input, tvars>>
       \/ /\ ~CookieLoopContinues(o_count + 1, CookieCallRetries)
          /\ o_pc = "cookie2"
          /\ a_trace' = IF o_count = 0 THEN Append(a_trace, "get_session_cookie") ELSE a_trace
          /\ a_session_cookie' = NoneVal
          /\ o_reads' = 0
          /\ o_count' = 0
          /\ o_pc' = "returned"
          /\ o_ret' = "False"
          /\ o_why' = "no_cookie"
          /\ o_tab' = 0
          /\ o_original_tab' = 0
          /\ o_click_tabs' = <<>>
          /\ o_url' = NoneVal
          /\ o_url_type' = "unset"
          /\ o_redirect' = NoRedirect
          /\ t_initial_tabs' = <<>>
          /\ t_initial_tab_count' = 0
          /\ t_record_ret' = -1
          /\ t_added' = 0
          /\ t_found' = NoFound
          /\ o_new_tab' = 0
          /\ o_oauth_tab' = 0
          /\ o_username_input' = "unset"
          /\ o_password_input' = "unset"
          /\ UNCHANGED <<a_cfg, a_login_method, a_client, a_browser, lvars,
                         nvars, o_timeouts, o_exc, t_browser, t_tabs,
                         t_next_id, t_removed, t_pc, t_polls>>
       \/ /\ o_pc' = "returned"
          /\ o_ret' = "raise"
          /\ o_why' = "exception"
          /\ o_exc' = o_pc
          /\ o_tab' = 0
          /\ o_original_tab' = 0
          /\ o_click_tabs' = <<>>
          /\ o_url' = NoneVal
          /\ o_url_type' = "unset"
          /\ o_redirect' = NoRedirect
          /\ o_count' = 0
          /\ t_initial_tabs' = <<>>
          /\ t_initial_tab_count' = 0
          /\ t_record_ret' = -1
          /\ t_added' = 0
          /\ t_found' = NoFound
          /\ o_new_tab' = 0
          /\ o_oauth_tab' = 0
          /\ o_username_input' = "unset"
          /\ o_password_input' = "unset"
          /\ o_reads' = 0
          /\ UNCHANGED <<avars, lvars, nvars, o_timeouts, t_browser, t_tabs,
                         t_next_id, t_removed, t_pc, t_polls>>

\* lines 874-887: get_session_cookie(max_retries=3), one read of the cookies: the\nsession cookie is there, or the read is repeated, or the call returns None\nafter its last read; then once more after switching back if the flow had\nchanged tabs; without a cookie the flow returns False
GetSessionCookie ==
    /\ o_pc \in {"cookie1", "cookie2"}
    /\ \/ /\ a_trace' = IF o_count = 0 THEN Append(a_trace, "get_session_cookie") ELSE a_trace
          /\ a_session_cookie' = SessionValue
          /\ o_reads' = o_reads + 1
          /\ o_count' = 0
          /\ o_pc' = "user_id"
          /\ UNCHANGED <<a_cfg, a_login_method, a_client, a_browser, lvars,
                         nvars, o_tab, o_original_tab, o_click_tabs, o_url,
                         o_url_type, o_redirect, o_timeouts, o_ret, o_why,
                         o_exc, o_new_tab, o_oauth_tab, o_username_input,
                         o_password_input, tvars>>
       \/ /\ CookieLoopContinues(o_count + 1, CookieCallRetries)
          /\ a_trace' = IF o_count = 0 THEN Append(a_trace, "get_session_cookie") ELSE a_trace
          /\ o_reads' = o_reads + 1
          /\ o_count' = o_count + 1
          /\ UNCHANGED <<a_cfg, a_login_method, a_client, a_session_cookie,
                         a_browser, lvars, nvars, o_pc, o_tab,
                         o_original_tab, o_click_tabs, o_url, o_url_type,
                         o_redirect, o_timeouts, o_ret, o_why, o_exc,
                         o_new_tab, o_oauth_tab, o_username_input,
                         o_password_input, tvars>>
       \/ /\ ~CookieLoopContinues(o_count + 1, CookieCallRetries)
          /\ o_pc = "cookie1" /\ o_tab # o_original_tab
          /\ a_trace' = IF o_count = 0 THEN Append(a_trace, "get_session_cookie") ELSE a_trace
          /\ a_session_cookie' = NoneVal
          /\ o_reads' = o_reads + 1
          /\ o_count' = 0
          /\ o_pc' = "switch_back"
          /\ UNCHANGED <<a_cfg, a_login_method, a_client, a_browser, lvars,
                         nvars, o_tab, o_original_tab, o_click_tabs, o_url,
                         o_url_type, o_redirect, o_timeouts, o_ret, o_why,
                         o_exc, o_new_tab, o_oauth_tab, o_username_input,
                         o_password_input, tvars>>
       \/ /\ ~CookieLoopContinues(o_count + 1, CookieCallRetries)
          /\ o_pc = "cookie2" \/ o_tab = o_original_tab
          /\ a_trace' = IF o_count = 0 THEN Append(a_trace, "get_session_cookie") ELSE a_trace
          /\ a_session_cookie' = NoneVal
          /\ o_reads' = 0
          /\ o_count' = 0
          /\ o_pc' = "returned"
          /\ o_ret' = "False"
          /\ o_why' = "no_cookie"
          /\ o_tab' = 0
          /\ o_original_tab' = 0
          /\ o_click_tabs' = <<>>
          /\ o_url' = NoneVal
          /\ o_url_type' = "unset"
          /\ o_redirect' = NoRedirect
          /\ t_initial_tabs' = <<>>
          /\ t_initial_tab_count' = 0
          /\ t_record_ret' = -1
          /\ t_added' = 0
          /\ t_found' = NoFound
          /\ o_new_tab' = 0
          /\ o_oauth_tab' = 0
          /\ o_username_input' = "unset"
          /\ o_password_input' = "unset"
          /\ UNCHANGED <<a_cfg, a_login_method, a_client, a_browser, lvars,
                         nvars, o_timeouts, o_exc, t_browser, t_tabs,
                         t_next_id, t_removed, t_pc, t_polls>>
       \/ /\ o_pc' = "returned"
          /\ o_ret' = "raise"
          /\ o_why' = "exception"
          /\ o_exc' = o_pc
          /\ o_tab' = 0
          /\ o_original_tab' = 0
          /\ o_click_tabs' = <<>>
          /\ o_url' = NoneVal
          /\ o_url_type' = "unset"
          /\ o_redirect' = NoRedirect
          /\ o_count' = 0
          /\ t_initial_tabs' = <<>>
          /\ t_initial_tab_count' = 0
          /\ t_record_ret' = -1
          /\ t_added' = 0
          /\ t_found' = NoFound
          /\ o_new_tab' = 0
          /\ o_oauth_tab' = 0
          /\ o_username_input' = "unset"
          /\ o_password_input' = "unset"
          /\ o_reads' = 0
          /\ UNCHANGED <<avars, lvars, nvars, o_timeouts, t_browser, t_tabs,
                         t_next_id, t_removed, t_pc, t_polls>>

\* lines 880-881: switch_to_tab(original_tab)
SwitchBack ==
    /\ o_pc = "switch_back"
    /\ \/ /\ a_trace' = Append(a_trace, "switch_to_tab")
          /\ o_pc' = "cookie2"
          /\ UNCHANGED <<a_cfg, a_login_method, a_client, a_session_cookie,
                         a_browser, lvars, nvars, o_tab, o_original_tab,
                         o_click_tabs, o_url, o_url_type, o_redirect,
                         o_count, o_timeouts, o_ret, o_why, o_exc, o_new_tab,
                         o_oauth_tab, o_username_input, o_password_input,
                         o_reads, tvars>>
       \/ /\ o_pc' = "returned"
          /\ o_ret' = "raise"
          /\ o_why' = "exception"
          /\ o_exc' = o_pc
          /\ o_tab' = 0
          /\ o_original_tab' = 0
          /\ o_click_tabs' = <<>>
          /\ o_url' = NoneVal
          /\ o_url_type' = "unset"
          /\ o_redirect' = NoRedirect
          /\ o_count' = 0
          /\ t_initial_tabs' = <<>>
          /\ t_initial_tab_count' = 0
          /\ t_record_ret' = -1
          /\ t_added' = 0
          /\ t_found' = NoFound
          /\ o_new_tab' = 0
          /\ o_oauth_tab' = 0
          /\ o_username_input' = "unset"
          /\ o_password_input' = "unset"
          /\ o_reads' = 0
          /\ UNCHANGED <<avars, lvars, nvars, o_timeouts, t_browser, t_tabs,
                         t_next_id, t_removed, t_pc, t_polls>>

\* lines 893-950: look for the user id in the page, exceptions caught
UserIdLookup ==
    /\ o_pc = "user_id"
    /\ o_pc' = "init_client"
    /\ UNCHANGED <<avars, lvars, nvars, o_tab, o_original_tab, o_click_tabs,
                   o_url, o_url_type, o_redirect, o_count, o_timeouts, o_ret,
                   o_why, o_exc, o_new_tab, o_oauth_tab, o_username_input,
                   o_password_input, o_reads, tvars>>

\* Variant: the credential is not handed to a client.
InitHttpClient_not_set ==
    /\ o_pc = "init_client"
    /\ a_trace' = Append(a_trace, "init_http_client")
    /\ o_pc' = "verify"
    /\ UNCHANGED <<a_cfg, a_login_method, a_client, a_session_cookie,
                   a_browser, lvars, nvars, o_tab, o_original_tab,
                   o_click_tabs, o_url, o_url_type, o_redirect, o_count,
                   o_timeouts, o_ret, o_why, o_exc, o_new_tab, o_oauth_tab,
                   o_username_input, o_password_input, o_reads, tvars>>

\* line 952: self._init_http_client()
InitHttpClient ==
    /\ o_pc = "init_client"
    /\ a_trace' = Append(a_trace, "init_http_client")
    /\ a_client' = "set"
    /\ o_pc' = "verify"
    /\ UNCHANGED <<a_cfg, a_login_method, a_session_cookie, a_browser, lvars,
                   nvars, o_tab, o_original_tab, o_click_tabs, o_url,
                   o_url_type, o_redirect, o_count, o_timeouts, o_ret, o_why,
                   o_exc, o_new_tab, o_oauth_tab, o_username_input,
                   o_password_input, o_reads, tvars>>

\* line 953: return await self._verify_login(), which catches its own exceptions
VerifyLogin ==
    /\ o_pc = "verify"
    /\ \/ /\ o_pc' = "returned"
          /\ o_ret' = "True"
          /\ o_tab' = 0
          /\ o_original_tab' = 0
          /\ o_click_tabs' = <<>>
          /\ o_url' = NoneVal
          /\ o_url_type' = "unset"
          /\ o_redirect' = NoRedirect
          /\ o_count' = 0
          /\ t_initial_tabs' = <<>>
          /\ t_initial_tab_count' = 0
          /\ t_record_ret' = -1
          /\ t_added' = 0
          /\ t_found' = NoFound
          /\ o_new_tab' = 0
          /\ o_oauth_tab' = 0
          /\ o_username_input' = "unset"
          /\ o_password_input' = "unset"
          /\ o_reads' = 0
          /\ UNCHANGED <<avars, lvars, nvars, o_timeouts, o_why, o_exc,
                         t_browser, t_tabs, t_next_id, t_removed, t_pc,
                         t_polls>>
       \/ /\ o_pc' = "returned"
          /\ o_ret' = "False"
          /\ o_why' = "verify"
          /\ o_tab' = 0
          /\ o_original_tab' = 0
          /\ o_click_tabs' = <<>>
          /\ o_url' = NoneVal
          /\ o_url_type' = "unset"
          /\ o_redirect' = NoRedirect
          /\ o_count' = 0
          /\ t_initial_tabs' = <<>>
          /\ t_initial_tab_count' = 0
          /\ t_record_ret' = -1
          /\ t_added' = 0
          /\ t_found' = NoFound
          /\ o_new_tab' = 0
          /\ o_oauth_tab' = 0
          /\ o_username_input' = "unset"
          /\ o_password_input' = "unset"
          /\ o_reads' = 0
          /\ UNCHANGED <<avars, lvars, nvars, o_timeouts, o_exc, t_browser,
                         t_tabs, t_next_id, t_removed, t_pc, t_polls>>

\* the page of the flow's tab changes while the flow is suspended
PageNavigates ==
    /\ o_pc \in NavigationPoints
    /\ \E u \in PageUrls \ {current_url_of(t_tabs, o_tab)} :
       /\ t_tabs' = WithUrl(t_tabs, o_tab, u)
       /\ UNCHANGED <<avars, lvars, nvars, ovars, t_browser, t_next_id,
                      t_initial_tabs, t_initial_tab_count, t_record_ret,
                      t_added, t_removed, t_pc, t_polls, t_found>>

\* the browser opens a tab: a pop-up of the site while the button is looked
\* for, or the provider's tab after the click
TabOpens ==
    /\ o_pc \in {"search", "detect", "detecting", "find"}
    /\ Len(t_tabs) < MaxFlowTabs
    /\ \E u \in NewTabUrls :
       /\ t_tabs' = Append(t_tabs, Tab(t_next_id, u))
       /\ t_next_id' = t_next_id + 1
       /\ t_added' = t_added + 1
       /\ UNCHANGED <<avars, lvars, nvars, ovars, t_browser, t_initial_tabs,
                      t_initial_tab_count, t_record_ret, t_removed, t_pc,
                      t_polls, t_found>>

\* lines 184-189: _login_via_linuxdo_nodriver starts the flow on self.page
NodriverCall ==
    /\ n_pc = "call"
    /\ n_pc' = "flow"
    /\ o_pc' = "linuxdo_first"
    /\ o_tab' = t_tabs[1].id
    /\ UNCHANGED <<avars, lvars, n_ret, n_oauth_success, o_original_tab,
                   o_click_tabs, o_url, o_url_type, o_redirect, o_count,
                   o_timeouts, o_ret, o_why, o_exc, o_new_tab, o_oauth_tab,
                   o_username_input, o_password_input, o_reads, tvars>>

\* Variant: an exception of the flow is passed on to the caller.
NodriverFlowEnds_escapes ==
    /\ n_pc = "flow"
    /\ o_pc = "returned"
    /\ \/ /\ o_ret = "True"
          /\ n_oauth_success' = TRUE
          /\ n_ret' = "True"
          /\ n_pc' = "done"
          /\ UNCHANGED <<avars, lvars, ovars, tvars>>
       \/ /\ o_ret # "True"
          /\ n_oauth_success' = FALSE
          /\ n_ret' = o_ret
          /\ n_pc' = "cleanup"
          /\ UNCHANGED <<avars, lvars, ovars, tvars>>

\* lines 189-202: the flow returned (oauth_success is its result) or raised
\* (caught, the result is False); cleanup follows unless oauth_success
NodriverFlowEnds ==
    /\ n_pc = "flow"
    /\ o_pc = "returned"
    /\ \/ /\ o_ret = "True"
          /\ n_oauth_success' = TRUE
          /\ n_ret' = "True"
          /\ n_pc' = "done"
          /\ UNCHANGED <<avars, lvars, ovars, tvars>>
       \/ /\ o_ret # "True"
          /\ n_oauth_success' = FALSE
          /\ n_ret' = "False"
          /\ n_pc' = "cleanup"
          /\ UNCHANGED <<avars, lvars, ovars, tvars>>

\* Variant: the browser is not closed after a failed flow.
NodriverCleanup_no_close ==
    /\ n_pc = "cleanup"
    /\ n_pc' = "done"
    /\ UNCHANGED <<avars, lvars, n_ret, n_oauth_success, ovars, tvars>>

\* lines 202-210: close the browser; an exception of close() is caught
NodriverCleanup ==
    /\ n_pc = "cleanup"
    /\ \/ /\ a_trace' = Append(a_trace, "close")
          /\ a_browser' = "none"
          /\ t_browser' = "none"
          /\ t_tabs' = <<>>
          /\ t_next_id' = 1
          /\ n_pc' = "done"
          /\ UNCHANGED <<a_cfg, a_login_method, a_client, a_session_cookie,
                         lvars, n_ret, n_oauth_success, ovars,
                         t_initial_tabs, t_initial_tab_count, t_record_ret,
                         t_added, t_removed, t_pc, t_polls, t_found>>
       \/ /\ a_trace' = Append(a_trace, "close")
          /\ n_pc' = "done"
          /\ UNCHANGED <<a_cfg, a_login_method, a_client, a_session_cookie,
                         a_browser, lvars, n_ret, n_oauth_success, ovars,
                         tvars>>

\* Variant: OAuth is tried with a user name or a password.
LoginCall_either ==
    /\ l_pc = "start"
    /\ \/ /\ PyTruthy(a_cfg.username) \/ PyTruthy(a_cfg.password)
          /\ l_pc' = "init_browser"
          /\ UNCHANGED <<avars, l_oauth, l_ret, nvars, ovars, tvars>>
       \/ /\ ~(PyTruthy(a_cfg.username) \/ PyTruthy(a_cfg.password))
          /\ l_pc' = "fallback"
          /\ UNCHANGED <<avars, l_oauth, l_ret, nvars, ovars, tvars>>

\* lines 123-126: login(); OAuth is tried with a user name and a password
LoginCall ==
    /\ l_pc = "start"
    /\ \/ /\ PyTruthy(a_cfg.username) /\ PyTruthy(a_cfg.password)
          /\ l_pc' = "init_browser"
          /\ UNCHANGED <<avars, l_oauth, l_ret, nvars, ovars, tvars>>
       \/ /\ ~(PyTruthy(a_cfg.username) /\ PyTruthy(a_cfg.password))
          /\ l_pc' = "fallback"
          /\ UNCHANGED <<avars, l_oauth, l_ret, nvars, ovars, tvars>>

\* lines 129, 149-159: _login_via_linuxdo: _init_browser(), outside its try, then
\* the nodriver login; an exception of _init_browser reaches login()
InitBrowser ==
    /\ l_pc = "init_browser"
    /\ \/ /\ a_trace' = Append(a_trace, "oauth")
          /\ a_browser' = "open"
          /\ t_browser' = "present"
          /\ t_tabs' = <<Tab(1, UrlBlank)>>
          /\ t_next_id' = 2
          /\ n_pc' = "call"
          /\ l_pc' = "oauth"
          /\ UNCHANGED <<a_cfg, a_login_method, a_client, a_session_cookie,
                         l_oauth, l_ret, n_ret, n_oauth_success, ovars,
                         t_initial_tabs, t_initial_tab_count, t_record_ret,
                         t_added, t_removed, t_pc, t_polls, t_found>>
       \/ /\ a_trace' = Append(a_trace, "oauth")
          /\ l_oauth' = "raise"
          /\ l_pc' = "fallback"
          /\ UNCHANGED <<a_cfg, a_login_method, a_client, a_session_cookie,
                         a_browser, l_ret, nvars, ovars, tvars>>

\* lines 129-137: the OAuth login returned; True ends login()
OAuthEnds ==
    /\ l_pc = "oauth"
    /\ n_pc = "done"
    /\ \/ /\ n_ret = "True"
          /\ l_oauth' = "True"
          /\ a_login_method' = "LinuxDO OAuth"
          /\ l_ret' = "True"
          /\ l_pc' = "done"
          /\ UNCHANGED <<a_cfg, a_client, a_session_cookie, a_browser,
                         a_trace, nvars, ovars, tvars>>
       \/ /\ n_ret # "True"
          /\ l_oauth' = "False"
          /\ l_pc' = "fallback"
          /\ UNCHANGED <<avars, l_ret, nvars, ovars, tvars>>

\* lines 139-147, 1142-1153: _login_via_cookie when fallback cookies are set:
\* parse the session cookie, set the client up, verify
CookieLogin ==
    /\ l_pc = "fallback"
    /\ PyTruthy(a_cfg.fallback)
    /\ \/ /\ ~PyTruthy(ParsedFallback[a_cfg.fallback])
          /\ a_trace' = Append(a_trace, "cookie")
          /\ a_session_cookie' = ParsedFallback[a_cfg.fallback]
          /\ l_ret' = "False"
          /\ l_pc' = "done"
          /\ UNCHANGED <<a_cfg, a_login_method, a_client, a_browser, l_oauth,
                         nvars, ovars, tvars>>
       \/ /\ PyTruthy(ParsedFallback[a_cfg.fallback])
          /\ a_trace' = Append(Append(a_trace, "cookie"), "init_http_client")
          /\ a_session_cookie' = ParsedFallback[a_cfg.fallback]
          /\ a_client' = "set"
          /\ a_login_method' = "Cookie"
          /\ l_ret' = "True"
          /\ l_pc' = "done"
          /\ UNCHANGED <<a_cfg, a_browser, l_oauth, nvars, ovars, tvars>>
       \/ /\ PyTruthy(ParsedFallback[a_cfg.fallback])
          /\ a_trace' = Append(Append(a_trace, "cookie"), "init_http_client")
          /\ a_session_cookie' = ParsedFallback[a_cfg.fallback]
          /\ a_client' = "set"
          /\ l_ret' = "False"
          /\ l_pc' = "done"
          /\ UNCHANGED <<a_cfg, a_login_method, a_browser, l_oauth, nvars,
                         ovars, tvars>>

\* lines 139-147: no fallback cookies: login() returns False
NoFallback ==
    /\ l_pc = "fallback"
    /\ ~PyTruthy(a_cfg.fallback)
    /\ l_ret' = "False"
    /\ l_pc' = "done"
    /\ UNCHANGED <<avars, l_oauth, nvars, ovars, tvars>>

-----------------------------------------------------------------------------
(* Idle values: what a component's variables hold while another is checked *)

RetryIdle ==
    /\ r_cfg = [max_retries |-> 0, base_delay |-> 0, backoff_factor |-> 0,
                max_delay |-> 0, exceptions |-> ExceptionsNone, op_kind |-> "async"]
    /\ r_pc = "idle"
    /\ r_attempt = 0
    /\ r_trace = <<>>
    /\ r_last_exception = NoExc
    /\ r_outcome = NoExc

WrapperIdle ==
    /\ d_pc = "idle"
    /\ d_attempt = 0
    /\ d_trace = <<>>
    /\ d_last_exception = NoExc
    /\ d_outcome = NoExc

TabsIdle ==
    /\ t_browser = "none"
    /\ t_tabs = <<>>
    /\ t_next_id = 1
    /\ t_initial_tabs = <<>>
    /\ t_initial_tab_count = 0
    /\ t_record_ret = -1
    /\ t_added = 0
    /\ t_removed = 0
    /\ t_pc = "off"
    /\ t_polls = 0
    /\ t_found = NoFound

ClassifyIdle ==
    /\ c_url = NoneVal
    /\ c_target = NoneVal
    /\ c_result = "idle"
    /\ c_auth = "idle"
    /\ c_related = "idle"

DomainIdle ==
    /\ m_domain = NoneVal
    /\ m_target = <<>>
    /\ m_result = "idle"

LookupIdle ==
    /\ f_target = <<>>
    /\ f_cookies = <<>>
    /\ f_result = NoneVal

RetrieverIdle ==
    /\ k_target = <<>>
    /\ k_jar = <<>>
    /\ k_max_retries = 0
    /\ k_pc = "off"
    /\ k_reads = <<>>
    /\ k_finds = <<>>
    /\ k_result = Unset
    /\ k_outcome = "none"

CookieIdle == DomainIdle /\ LookupIdle /\ RetrieverIdle

LoginIdle ==
    /\ a_cfg = [username |-> NoneVal, password |-> NoneVal, fallback |-> NoneVal]
    /\ a_login_method = "unknown"
    /\ a_client = "none"
    /\ a_session_cookie = NoneVal
    /\ a_browser = "none"
    /\ a_trace = <<>>
    /\ l_pc = "off"
    /\ l_oauth = "skipped"
    /\ l_ret = "none"
    /\ n_pc = "idle"
    /\ n_ret = "none"
    /\ n_oauth_success = FALSE
    /\ o_pc = "idle"
    /\ o_tab = 0
    /\ o_original_tab = 0
    /\ o_click_tabs = <<>>
    /\ o_url = NoneVal
    /\ o_url_type = "unset"
    /\ o_redirect = NoRedirect
    /\ o_count = 0
    /\ o_timeouts = {}
    /\ o_ret = "none"
    /\ o_why = "none"
    /\ o_exc = "none"
    /\ o_new_tab = 0
    /\ o_oauth_tab = 0
    /\ o_username_input = "unset"
    /\ o_password_input = "unset"
    /\ o_reads = 0

-----------------------------------------------------------------------------
(* Specification of the classifier *)

InitClassify == ClassifyInit /\ RetryIdle /\ WrapperIdle /\ TabsIdle /\ CookieIdle /\ LoginIdle

NextClassify == ClassifyCall /\ UNCHANGED <<rvars, dvars, tvars, jvars, loginvars>>

SpecClassify == InitClassify /\ [][NextClassify]_vars

-----------------------------------------------------------------------------
(* Specification of the retry engine *)

InitRetry == ClassifyIdle /\ RetryInit /\ WrapperIdle /\ TabsIdle /\ CookieIdle /\ LoginIdle

NextRetry ==
    \/ RetryEnter /\ UNCHANGED <<cvars, dvars, tvars, jvars, loginvars>>
    \/ RetryAttempt /\ UNCHANGED <<cvars, dvars, tvars, jvars, loginvars>>
    \/ RetrySleep /\ UNCHANGED <<cvars, dvars, tvars, jvars, loginvars>>
    \/ RetryAfterLoop /\ UNCHANGED <<cvars, dvars, tvars, jvars, loginvars>>

SpecRetry == InitRetry /\ [][NextRetry]_vars

-----------------------------------------------------------------------------
(* Specification of the two retry forms side by side: retry_async_operation *)
(* on a coroutine function, then the async_retry wrapper on the same policy *)
(* and the same outcomes.                                                   *)

InitRetryPair ==
    /\ ClassifyIdle
    /\ RetryInit
    /\ r_cfg.op_kind = "async"
    /\ WrapperInit
    /\ TabsIdle
    /\ CookieIdle
    /\ LoginIdle

NextRetryPair ==
    \/ RetryEnter /\ UNCHANGED <<cvars, dvars, tvars, jvars, loginvars>>
    \/ RetryAttempt /\ UNCHANGED <<cvars, dvars, tvars, jvars, loginvars>>
    \/ RetrySleep /\ UNCHANGED <<cvars, dvars, tvars, jvars, loginvars>>
    \/ RetryAfterLoop /\ UNCHANGED <<cvars, dvars, tvars, jvars, loginvars>>
    \/ WrapperEnter /\ UNCHANGED <<cvars, rvars, tvars, jvars, loginvars>>
    \/ WrapperAttempt /\ UNCHANGED <<cvars, rvars, tvars, jvars, loginvars>>
    \/ WrapperSleep /\ UNCHANGED <<cvars, rvars, tvars, jvars, loginvars>>
    \/ WrapperAfterLoop /\ UNCHANGED <<cvars, rvars, tvars, jvars, loginvars>>

SpecRetryPair == InitRetryPair /\ [][NextRetryPair]_vars

-----------------------------------------------------------------------------
(* Specification of the tab coordinator: recording and new-tab detection    *)
(* while the browser opens and closes tabs                                  *)

InitTabs == ClassifyIdle /\ RetryIdle /\ WrapperIdle /\ TabsInit /\ CookieIdle /\ LoginIdle

NextTabs ==
    \/ AddTab /\ UNCHANGED <<cvars, rvars, dvars, jvars, loginvars>>
    \/ RemoveTab /\ UNCHANGED <<cvars, rvars, dvars, jvars, loginvars>>
    \/ RecordTabCount /\ UNCHANGED <<cvars, rvars, dvars, jvars, loginvars>>
    \/ DetectNewTabStart /\ UNCHANGED <<cvars, rvars, dvars, jvars, loginvars>>
    \/ DetectNewTabPoll /\ UNCHANGED <<cvars, rvars, dvars, jvars, loginvars>>

SpecTabs == InitTabs /\ [][NextTabs]_vars

(* Specification of find_oauth_tab over tab lists *)

InitFind == ClassifyIdle /\ RetryIdle /\ WrapperIdle /\ FindInit /\ CookieIdle /\ LoginIdle

NextFind == FindOAuthTab /\ UNCHANGED <<cvars, rvars, dvars, jvars, loginvars>>

SpecFind == InitFind /\ [][NextFind]_vars

-----------------------------------------------------------------------------
(* Specifications of the cookie retriever: the domain test and the lookup   *)
(* over their inputs, and get_session_cookie while the site sets cookies    *)

OthersIdle == ClassifyIdle /\ RetryIdle /\ WrapperIdle /\ TabsIdle /\ LoginIdle

InitDomain == OthersIdle /\ DomainInit /\ LookupIdle /\ RetrieverIdle

NextDomain == DomainMatchesCall /\ UNCHANGED <<cvars, rvars, dvars, tvars, fvars, kvars, loginvars>>

SpecDomain == InitDomain /\ [][NextDomain]_vars

InitLookup == OthersIdle /\ DomainIdle /\ LookupInit /\ RetrieverIdle

NextLookup == FindSessionCookieCall /\ UNCHANGED <<cvars, rvars, dvars, tvars, mvars, kvars, loginvars>>

SpecLookup == InitLookup /\ [][NextLookup]_vars

InitCookie == OthersIdle /\ DomainIdle /\ LookupIdle /\ CookieInit

NextCookie ==
    \/ SetCookie /\ UNCHANGED <<cvars, rvars, dvars, tvars, mvars, fvars, loginvars>>
    \/ GetSessionCookieStart /\ UNCHANGED <<cvars, rvars, dvars, tvars, mvars, fvars, loginvars>>
    \/ GetSessionCookieAttempt /\ UNCHANGED <<cvars, rvars, dvars, tvars, mvars, fvars, loginvars>>
    \/ GetSessionCookieGiveUp /\ UNCHANGED <<cvars, rvars, dvars, tvars, mvars, fvars, loginvars>>

SpecCookie == InitCookie /\ [][NextCookie]_vars

-----------------------------------------------------------------------------
(* Specification of the url predicates *)

InitPredicates == PredicatesInit /\ RetryIdle /\ WrapperIdle /\ TabsIdle /\ CookieIdle /\ LoginIdle

NextPredicates ==
    \/ IsAuthorizationUrlCall /\ UNCHANGED <<rvars, dvars, tvars, jvars, loginvars>>
    \/ IsOAuthRelatedUrlCall /\ UNCHANGED <<rvars, dvars, tvars, jvars, loginvars>>

SpecPredicates == InitPredicates /\ [][NextPredicates]_vars

-----------------------------------------------------------------------------
(* Specification of the adapter's login: login(), the nodriver OAuth flow   *)
(* and the cookie fallback, with the browser as environment. The second     *)
(* specification adds that the event loop keeps running the adapter's own   *)
(* steps: every awaited call returns or raises.                             *)

InitLogin == ClassifyIdle /\ RetryIdle /\ WrapperIdle /\ TabsIdle /\ CookieIdle /\ AdapterInit

NextLogin ==
    \/ LoginToLinuxdoFirst /\ UNCHANGED <<cvars, rvars, dvars, jvars>>
    \/ NavigateToLogin /\ UNCHANGED <<cvars, rvars, dvars, jvars>>
    \/ WaitForCloudflare /\ UNCHANGED <<cvars, rvars, dvars, jvars>>
    \/ RegisterDetour /\ UNCHANGED <<cvars, rvars, dvars, jvars>>
    \/ AgreementCheckbox /\ UNCHANGED <<cvars, rvars, dvars, jvars>>
    \/ ButtonSearch /\ UNCHANGED <<cvars, rvars, dvars, jvars>>
    \/ RecordTabs /\ UNCHANGED <<cvars, rvars, dvars, jvars>>
    \/ ClickProviderButton /\ UNCHANGED <<cvars, rvars, dvars, jvars>>
    \/ DetectNewTabCall /\ UNCHANGED <<cvars, rvars, dvars, jvars>>
    \/ DetectNewTabWait /\ UNCHANGED <<cvars, rvars, dvars, jvars>>
    \/ SwitchToTab /\ UNCHANGED <<cvars, rvars, dvars, jvars>>
    \/ FindOAuthTabCall /\ UNCHANGED <<cvars, rvars, dvars, jvars>>
    \/ WaitForProvider /\ UNCHANGED <<cvars, rvars, dvars, jvars>>
    \/ ReadUrl /\ UNCHANGED <<cvars, rvars, dvars, jvars>>
    \/ HandleAuthorizationPage /\ UNCHANGED <<cvars, rvars, dvars, jvars>>
    \/ RereadUrl /\ UNCHANGED <<cvars, rvars, dvars, jvars>>
    \/ LoginForm /\ UNCHANGED <<cvars, rvars, dvars, jvars>>
    \/ FillPassword /\ UNCHANGED <<cvars, rvars, dvars, jvars>>
    \/ SubmitLoginForm /\ UNCHANGED <<cvars, rvars, dvars, jvars>>
    \/ AfterSubmit /\ UNCHANGED <<cvars, rvars, dvars, jvars>>
    \/ AuthorizeClick /\ UNCHANGED <<cvars, rvars, dvars, jvars>>
    \/ RedirectWait /\ UNCHANGED <<cvars, rvars, dvars, jvars>>
    \/ RedirectTimeoutRead /\ UNCHANGED <<cvars, rvars, dvars, jvars>>
    \/ GetSessionCookie /\ UNCHANGED <<cvars, rvars, dvars, jvars>>
    \/ SwitchBack /\ UNCHANGED <<cvars, rvars, dvars, jvars>>
    \/ UserIdLookup /\ UNCHANGED <<cvars, rvars, dvars, jvars>>
    \/ InitHttpClient /\ UNCHANGED <<cvars, rvars, dvars, jvars>>
    \/ VerifyLogin /\ UNCHANGED <<cvars, rvars, dvars, jvars>>
    \/ PageNavigates /\ UNCHANGED <<cvars, rvars, dvars, jvars>>
    \/ TabOpens /\ UNCHANGED <<cvars, rvars, dvars, jvars>>
    \/ NodriverCall /\ UNCHANGED <<cvars, rvars, dvars, jvars>>
    \/ NodriverFlowEnds /\ UNCHANGED <<cvars, rvars, dvars, jvars>>
    \/ NodriverCleanup /\ UNCHANGED <<cvars, rvars, dvars, jvars>>
    \/ LoginCall /\ UNCHANGED <<cvars, rvars, dvars, jvars>>
    \/ InitBrowser /\ UNCHANGED <<cvars, rvars, dvars, jvars>>
    \/ OAuthEnds /\ UNCHANGED <<cvars, rvars, dvars, jvars>>
    \/ CookieLogin /\ UNCHANGED <<cvars, rvars, dvars, jvars>>
    \/ NoFallback /\ UNCHANGED <<cvars, rvars, dvars, jvars>>

AdapterStep ==
    \/ LoginToLinuxdoFirst /\ UNCHANGED <<cvars, rvars, dvars, jvars>>
    \/ NavigateToLogin /\ UNCHANGED <<cvars, rvars, dvars, jvars>>
    \/ WaitForCloudflare /\ UNCHANGED <<cvars, rvars, dvars, jvars>>
    \/ RegisterDetour /\ UNCHANGED <<cvars, rvars, dvars, jvars>>
    \/ AgreementCheckbox /\ UNCHANGED <<cvars, rvars, dvars, jvars>>
    \/ ButtonSearch /\ UNCHANGED <<cvars, rvars, dvars, jvars>>
    \/ RecordTabs /\ UNCHANGED <<cvars, rvars, dvars, jvars>>
    \/ ClickProviderButton /\ UNCHANGED <<cvars, rvars, dvars, jvars>>
    \/ DetectNewTabCall /\ UNCHANGED <<cvars, rvars, dvars, jvars>>
    \/ DetectNewTabWait /\ UNCHANGED <<cvars, rvars, dvars, jvars>>
    \/ SwitchToTab /\ UNCHANGED <<cvars, rvars, dvars, jvars>>
    \/ FindOAuthTabCall /\ UNCHANGED <<cvars, rvars, dvars, jvars>>
    \/ WaitForProvider /\ UNCHANGED <<cvars, rvars, dvars, jvars>>
    \/ ReadUrl /\ UNCHANGED <<cvars, rvars, dvars, jvars>>
    \/ HandleAuthorizationPage /\ UNCHANGED <<cvars, rvars, dvars, jvars>>
    \/ RereadUrl /\ UNCHANGED <<cvars, rvars, dvars, jvars>>
    \/ LoginForm /\ UNCHANGED <<cvars, rvars, dvars, jvars>>
    \/ FillPassword /\ UNCHANGED <<cvars, rvars, dvars, jvars>>
    \/ SubmitLoginForm /\ UNCHANGED <<cvars, rvars, dvars, jvars>>
    \/ AfterSubmit /\ UNCHANGED <<cvars, rvars, dvars, jvars>>
    \/ AuthorizeClick /\ UNCHANGED <<cvars, rvars, dvars, jvars>>
    \/ RedirectWait /\ UNCHANGED <<cvars, rvars, dvars, jvars>>
    \/ RedirectTimeoutRead /\ UNCHANGED <<cvars, rvars, dvars, jvars>>
    \/ GetSessionCookie /\ UNCHANGED <<cvars, rvars, dvars, jvars>>
    \/ SwitchBack /\ UNCHANGED <<cvars, rvars, dvars, jvars>>
    \/ UserIdLookup /\ UNCHANGED <<cvars, rvars, dvars, jvars>>
    \/ InitHttpClient /\ UNCHANGED <<cvars, rvars, dvars, jvars>>
    \/ VerifyLogin /\ UNCHANGED <<cvars, rvars, dvars, jvars>>
    \/ NodriverCall /\ UNCHANGED <<cvars, rvars, dvars, jvars>>
    \/ NodriverFlowEnds /\ UNCHANGED <<cvars, rvars, dvars, jvars>>
    \/ NodriverCleanup /\ UNCHANGED <<cvars, rvars, dvars, jvars>>
    \/ LoginCall /\ UNCHANGED <<cvars, rvars, dvars, jvars>>
    \/ InitBrowser /\ UNCHANGED <<cvars, rvars, dvars, jvars>>
    \/ OAuthEnds /\ UNCHANGED <<cvars, rvars, dvars, jvars>>
    \/ CookieLogin /\ UNCHANGED <<cvars, rvars, dvars, jvars>>
    \/ NoFallback /\ UNCHANGED <<cvars, rvars, dvars, jvars>>

SpecLogin == InitLogin /\ [][NextLogin]_vars

SpecLoginFair == InitLogin /\ [][NextLogin]_vars /\ WF_vars(AdapterStep)

-----------------------------------------------------------------------------
(* Properties of classify_oauth_url *)

Called == c_result \notin {"pending", "idle"}

UrlHas(k) == PyIsStr(c_url) /\ str_in(k, str_lower(c_url.s))

AllSpace(s) == \A i \in 1..Len(s) : IsSpace(s[i])

\* the target domain as rule 3 uses it: trimmed and lower-cased, "" for None
TargetKey == IF PyIsStr(c_target) THEN str_strip(str_lower(c_target.s)) ELSE <<>>

\* C1: for every url and target_domain (empty, None, whitespace-only and
\* non-string values included) classify_oauth_url returns one of the four
\* OAuthURLType values and never raises.
C1_Total == Called => c_result \in OAuthURLType

C1_Witness == /\ Called
              /\ c_result \in OAuthURLType
              /\ c_target = ObjVal
              /\ PyIsStr(c_url) /\ PyTruthy(c_url)

C3_CompleteIff ==
    Called => ( c_result = "OAUTH_COMPLETE"
                <=> /\ PyIsStr(c_url)
                    /\ ~UrlHas(KW_authorize)
                    /\ ~UrlHas(KW_linuxdo)
                    /\ TargetKey # <<>>
                    /\ str_in(TargetKey, str_lower(c_url.s))
                    /\ ~UrlHas(KW_login) )

\* a url with the target domain and a "login" joined from two fragments
C3_Witness == /\ Called
              /\ c_result = "OTHER"
              /\ TargetKey # <<>>
              /\ UrlHas(TargetKey)
              /\ UrlHas(KW_login)
              /\ ~UrlHas(KW_authorize) /\ ~UrlHas(KW_linuxdo)

TargetEmptyOrNull == c_target = NoneVal \/ c_target = Str(<<>>)

\* C5 as claimed: with an empty or null target domain every URL is OTHER.
C5_EmptyTargetOther == (Called /\ TargetEmptyOrNull) => c_result = "OTHER"

\* C5 amended: with an empty or null target domain the result is never
\* OAUTH_COMPLETE, and it is OTHER for every URL that contains neither
\* "authorize" nor "linux.do".
C5_EmptyTargetNeverComplete ==
    (Called /\ TargetEmptyOrNull) =>
        /\ c_result # "OAUTH_COMPLETE"
        /\ (~UrlHas(KW_authorize) /\ ~UrlHas(KW_linuxdo)) => c_result = "OTHER"

C5_Witness == /\ Called
              /\ TargetEmptyOrNull
              /\ PyIsStr(c_url) /\ PyTruthy(c_url)
              /\ ~UrlHas(KW_authorize) /\ ~UrlHas(KW_linuxdo) /\ ~UrlHas(KW_login)
              /\ c_result = "OTHER"

\* C6: an empty, None or whitespace-only url is classified OTHER for every
\* target domain.
C6_BlankUrlOther ==
    (Called /\ (c_url = NoneVal \/ (PyIsStr(c_url) /\ AllSpace(c_url.s)))) => c_result = "OTHER"

C6_Witness == /\ Called
              /\ PyIsStr(c_url) /\ c_url.s # <<>> /\ AllSpace(c_url.s)
              /\ PyIsStr(c_target) /\ c_target.s # <<>> /\ AllSpace(c_target.s)
              /\ c_result = "OTHER"

-----------------------------------------------------------------------------
(* Properties of retry_async_operation *)

calls == Calls(r_trace)
sleeps == Sleeps(r_trace)

Retryable(out) == out.kind = "raise" /\ Catches(retry_exceptions(r_cfg.exceptions), out)

\* the function has ended and every invocation raised a retryable exception
SustainedFailure ==
    /\ r_pc = "done"
    /\ r_cfg.max_retries >= 1
    /\ \A i \in 1..Len(calls) : Retryable(calls[i].out)

\* C7: with max_retries >= 1 and a retryable failure on every attempt, the
\* operation is invoked exactly max_retries times and asyncio.sleep exactly
\* max_retries - 1 times, one sleep between two consecutive attempts, none
\* before the first or after the last, and the function ends by raising.
C7_ExactAttempts ==
    SustainedFailure =>
        /\ Len(calls) = r_cfg.max_retries
        /\ Len(sleeps) = r_cfg.max_retries - 1
        /\ \A i \in 1..Len(r_trace) :
               r_trace[i].ev = (IF i % 2 = 1 THEN "call" ELSE "sleep")
        /\ r_outcome.kind = "raise"

C7_Witness == /\ SustainedFailure
              /\ r_cfg.max_retries >= 3
              /\ Len(calls) = r_cfg.max_retries
              /\ Len(sleeps) = r_cfg.max_retries - 1

\* C8: with a retryable failure on every attempt, the exception that leaves
\* retry_async_operation is the very exception object the last attempt raised.
C8_LastExceptionRaised ==
    SustainedFailure => r_outcome = calls[Len(calls)].out

C8_Witness == /\ SustainedFailure
              /\ Len(calls) >= 2
              /\ calls[1].out.type # calls[Len(calls)].out.type
              /\ r_outcome = calls[Len(calls)].out

\* C9: on sustained failure the sleeps are min(base_delay * backoff_factor^i,
\* max_delay) for i = 0 .. max_retries - 2; none exceeds max_delay and, for
\* backoff_factor >= 1, they never decrease.
C9_BackoffDelays ==
    SustainedFailure =>
        /\ Len(sleeps) = r_cfg.max_retries - 1
        /\ \A n \in 1..Len(sleeps) :
             LET i == n - 1
                 grown == r_cfg.base_delay * Pow(r_cfg.backoff_factor, i)
             IN  /\ sleeps[n].delay = (IF grown < r_cfg.max_delay THEN grown ELSE r_cfg.max_delay)
                 /\ sleeps[n].delay <= r_cfg.max_delay
        /\ r_cfg.backoff_factor >= 1 =>
             \A n \in 1..(Len(sleeps) - 1) : sleeps[n].delay <= sleeps[n + 1].delay

\* a first delay below the cap, a second one cut down to the cap
C9_Witness == /\ SustainedFailure
              /\ Len(sleeps) >= 2
              /\ sleeps[1].delay < r_cfg.max_delay
              /\ r_cfg.base_delay * r_cfg.backoff_factor > r_cfg.max_delay
              /\ sleeps[2].delay = r_cfg.max_delay

FirstSuccess == CHOOSE k \in 1..Len(calls) :
                    /\ calls[k].out.kind = "return"
                    /\ \A j \in 1..(k - 1) : calls[j].out.kind # "return"

\* C10: once an invocation has succeeded, as the k-th one after k-1 retryable
\* failures, retry_async_operation has returned that invocation's result, and
\* there have been exactly k invocations and k-1 sleeps, none after the success.
C10_EarlySuccess ==
    (\E i \in 1..Len(calls) : calls[i].out.kind = "return") =>
        LET k == FirstSuccess
        IN  /\ k <= r_cfg.max_retries
            /\ \A j \in 1..(k - 1) : Retryable(calls[j].out)
            /\ Len(calls) = k
            /\ Len(sleeps) = k - 1
            /\ r_trace[Len(r_trace)].ev = "call"
            /\ r_pc = "done"
            /\ r_outcome = [kind |-> "return", val |-> calls[k].out.val]

C10_Witness == /\ r_pc = "done"
               /\ r_outcome.kind = "return"
               /\ Len(calls) = 2
               /\ Len(sleeps) = 1
               /\ r_cfg.max_retries = 3
               /\ r_cfg.op_kind = "returns_coroutine"

\* the exception's class is no subclass of any class of the retryable set
NotConfigured(out) ==
    /\ out.kind = "raise"
    /\ Bases(out.type) \cap retry_exceptions(r_cfg.exceptions) = {}

\* C11: an exception whose type is not in the retryable set leaves
\* retry_async_operation from the attempt that raised it: that invocation is
\* the last event, no sleep and no attempt follows, and the exception itself
\* is what the function raises, on the first attempt or after retried ones.
C11_NonRetryablePropagates ==
    \A i \in 1..Len(calls) :
        NotConfigured(calls[i].out) =>
            /\ i = Len(calls)
            /\ r_trace[Len(r_trace)] = calls[i]
            /\ Len(sleeps) = i - 1
            /\ r_pc = "done"
            /\ r_outcome = calls[i].out

C11_Witness == /\ r_pc = "done"
               /\ Len(calls) = 2
               /\ r_cfg.max_retries = 3
               /\ r_cfg.exceptions = ExceptionsTuple({"ValueError"})
               /\ calls[1].out.kind = "raise" /\ calls[1].out.type = "ValueError"
               /\ calls[2].out.kind = "raise" /\ calls[2].out.type = "KeyError"
               /\ r_outcome = calls[2].out

\* C12: on the same policy and the same operation outcomes the async_retry
\* wrapper makes the same invocations and the same sleeps, in the same order,
\* as retry_async_operation, and ends with the same result or exception.
C12_DecoratorEquivalent ==
    d_pc = "done" => (d_trace = r_trace /\ d_outcome = r_outcome)

C12_Witness == /\ d_pc = "done"
               /\ Len(Calls(d_trace)) = 3
               /\ Len(Sleeps(d_trace)) = 2
               /\ d_outcome.kind = "raise"
               /\ d_outcome = r_outcome

-----------------------------------------------------------------------------
(* Properties of the tab coordinator *)

NothingChangedSinceRecord == t_record_ret # -1 /\ t_added = 0 /\ t_removed = 0

\* C13: record_tab_count returns the number of tabs the browser has and
\* stores exactly their ids; without a browser handle it returns 0 and
\* stores an empty list.
C13_RecordSnapshot ==
    NothingChangedSinceRecord =>
        /\ t_record_ret = Len(t_tabs)
        /\ t_initial_tab_count = Len(t_tabs)
        /\ Len(t_initial_tabs) = Len(t_tabs)
        /\ \A i \in 1..Len(t_tabs) : t_initial_tabs[i] = t_tabs[i].id
        /\ t_browser = "none" => (t_record_ret = 0 /\ t_initial_tabs = <<>>)

\* recorded after a tab was closed: the ids are not 1..n
C13_Witness == /\ NothingChangedSinceRecord
               /\ t_record_ret = 2
               /\ t_initial_tabs = <<2, 3>>

\* C14: after record_tab_count returned N, M tabs opened and none closed give
\* currentCount - N = M; R tabs closed and none opened give -R, which is
\* <= 0; and the stored count stays N whatever is opened or closed later.
C14_CountDifference ==
    t_record_ret # -1 =>
        /\ t_removed = 0 => Len(t_tabs) - t_record_ret = t_added
        /\ t_added = 0 => ( /\ Len(t_tabs) - t_record_ret = 0 - t_removed
                            /\ Len(t_tabs) - t_record_ret <= 0 )
        /\ t_initial_tab_count = t_record_ret

C14_Witness == /\ t_record_ret = 2
               /\ t_added = 2
               /\ t_removed = 0
               /\ Len(t_tabs) = 4

\* C15: the tab detect_new_tab returns is never one of the recorded ids: it
\* is a tab opened after the recording, or None; with no tab opened since the
\* recording (tabs closed or not) it is None.
C15_DetectOnlyNewTabs ==
    (t_found.op = "detect" /\ t_found.tab # NullTab) =>
        /\ t_found.tab.id \notin Range(t_initial_tabs)
        /\ t_found.tab.id >= t_next_id - t_added
        /\ t_found.added > 0

\* a new tab found although the tab count did not grow
C15_Witness == /\ t_found.op = "detect"
               /\ t_found.tab # NullTab
               /\ Len(t_initial_tabs) = 2
               /\ t_found.added = 1
               /\ t_removed >= 1
               /\ Len(t_tabs) <= 2

OAuthLike(tab) ==
    /\ PyIsStr(tab.url)
    /\ \/ str_in(<<"l", "i", "n", "u", "x", ".", "d", "o">>, str_lower(tab.url.s))
       \/ str_in(<<"o", "a", "u", "t", "h">>, str_lower(tab.url.s))
       \/ str_in(<<"a", "u", "t", "h", "o", "r", "i", "z", "e">>, str_lower(tab.url.s))
       \/ str_in(<<"c", "a", "l", "l", "b", "a", "c", "k">>, str_lower(tab.url.s))

\* C16: find_oauth_tab returns the first tab in list order whose url holds
\* "linux.do", "oauth", "authorize" or "callback" in any letter case, None
\* when no tab does, and None without a browser handle.
C16_FindFirstOAuthTab ==
    t_found.op = "find" =>
        /\ (\E i \in 1..Len(t_tabs) : OAuthLike(t_tabs[i])) =>
              \E i \in 1..Len(t_tabs) :
                  /\ OAuthLike(t_tabs[i])
                  /\ \A j \in 1..(i - 1) : ~OAuthLike(t_tabs[j])
                  /\ t_found.tab = t_tabs[i]
        /\ (\A i \in 1..Len(t_tabs) : ~OAuthLike(t_tabs[i])) => t_found.tab = NullTab
        /\ t_browser = "none" => t_found.tab = NullTab

C16_Witness == /\ t_found.op = "find"
               /\ Len(t_tabs) = 3
               /\ ~OAuthLike(t_tabs[1])
               /\ OAuthLike(t_tabs[2]) /\ ~str_in(KW_callback, t_tabs[2].url.s)
               /\ OAuthLike(t_tabs[3])
               /\ t_found.tab = t_tabs[2]

-----------------------------------------------------------------------------
(* Properties of the cookie retriever *)

\* str.split(".")
RECURSIVE Labels(_)
Labels(s) ==
    IF \A i \in 1..Len(s) : s[i] # "." THEN <<s>>
    ELSE LET k == CHOOSE i \in 1..Len(s) :
                      s[i] = "." /\ \A j \in 1..(i - 1) : s[j] # "."
         IN  <<SubSeq(s, 1, k - 1)>> \o Labels(SubSeq(s, k + 1, Len(s)))

\* the last labels of b are the labels of a
LabelSuffix(a, b) ==
    /\ Len(a) <= Len(b)
    /\ \A i \in 1..Len(a) : a[i] = b[Len(b) - Len(a) + i]

\* equal, or one is a dot-separated sub-domain of the other, once one
\* leading "." is taken off the cookie domain and both are lower-cased
SameOrSubdomain(domain, target) ==
    /\ domain.kind = "str"
    /\ domain.s # <<>>
    /\ LET d == Labels(str_lower(IF Head(domain.s) = "." THEN Tail(domain.s)
                                                        ELSE domain.s))
           t == Labels(str_lower(target))
       IN  LabelSuffix(d, t) \/ LabelSuffix(t, d)

\* C17: _domain_matches holds exactly when the cookie domain and the target
\* are equal or one is a dot-separated sub-domain of the other; for the
\* target example.com it accepts example.com, .example.com, sub.example.com
\* and .sub.example.com and rejects notexample.com, myexample.com,
\* example.com.evil.com, "" and None.
C17_DomainMatch ==
    m_result \in {"True", "False"} =>
        /\ (m_result = "True") <=> SameOrSubdomain(m_domain, m_target)
        /\ (/\ m_target = EXAMPLE_COM
            /\ m_domain \in {Str(EXAMPLE_COM), Str(<<".">> \o EXAMPLE_COM),
                             Str(SUB_EXAMPLE_COM), Str(<<".">> \o SUB_EXAMPLE_COM)})
              => m_result = "True"
        /\ (/\ m_target = EXAMPLE_COM
            /\ m_domain \in {Str(NOTEXAMPLE_COM), Str(<<"m", "y">> \o EXAMPLE_COM),
                             Str(EXAMPLE_COM \o <<".", "e", "v", "i", "l", ".", "c", "o", "m">>),
                             Str(<<>>), NoneVal})
              => m_result = "False"

C17_Witness == /\ m_result = "True"
               /\ m_target = EXAMPLE_COM
               /\ m_domain = Str(<<".">> \o SUB_EXAMPLE_COM)

IsSessionFor(cookie, target) ==
    /\ cookie.name = "session"
    /\ SameOrSubdomain(cookie.domain, target)

\* C18: _find_session_cookie returns the value of a cookie of the list that
\* is named exactly "session" and whose domain matches the target, whatever
\* other cookies stand before or after it; it returns None when the list has
\* no such cookie, the empty list included.
C18_SessionLookup ==
    f_result # Unset =>
        IF \E i \in 1..Len(f_cookies) : IsSessionFor(f_cookies[i], f_target)
        THEN \E i \in 1..Len(f_cookies) :
                /\ IsSessionFor(f_cookies[i], f_target)
                /\ f_result = f_cookies[i].value
        ELSE f_result = NoneVal

\* the one session cookie of the target stands last, behind a cookie of
\* another name and a session cookie of another domain
C18_Witness == /\ f_result = V2
               /\ Len(f_cookies) = 3
               /\ f_cookies[1].name = "other" /\ f_cookies[1].value = V1
               /\ f_cookies[2] = Cookie("session", Str(NOTEXAMPLE_COM), V1)
               /\ IsSessionFor(f_cookies[3], f_target)

\* the read delivered a session cookie of the target
HasSession(read) ==
    /\ ~read.failed
    /\ \E i \in 1..Len(read.jar) : IsSessionFor(read.jar[i], k_target)

\* C19: get_session_cookie(max_retries) reads the cookies anew on each
\* attempt and stops at the first read that has a matching session cookie:
\* no read before the last has one; if the last has one its value is
\* returned; otherwise None is returned after exactly max_retries reads;
\* there are never more than max_retries reads.
C19_RetriedRead ==
    /\ Len(k_reads) <= k_max_retries
    /\ (k_pc = "done" /\ k_outcome = "return") =>
          /\ \A i \in 1..(Len(k_reads) - 1) : ~HasSession(k_reads[i])
          /\ IF k_reads # <<>> /\ HasSession(k_reads[Len(k_reads)])
             THEN \E i \in 1..Len(k_reads[Len(k_reads)].jar) :
                     /\ IsSessionFor(k_reads[Len(k_reads)].jar[i], k_target)
                     /\ k_result = k_reads[Len(k_reads)].jar[i].value
             ELSE /\ k_result = NoneVal
                  /\ Len(k_reads) = k_max_retries

\* found on the last of three reads, the jar having grown between them
C19_Witness == /\ k_pc = "done"
               /\ k_max_retries = 3
               /\ Len(k_reads) = 3
               /\ k_reads[1].jar = <<>>
               /\ Len(k_reads[2].jar) = 1
               /\ HasSession(k_reads[3])
               /\ k_result = V1

\* C20: get_session_cookie does not raise when a cookie read fails: the
\* failed read counts as an attempt that found nothing, and the call goes on
\* to the next attempt or, the attempts used up, returns None.
C20_FailedReadIsEmpty ==
    /\ k_outcome # "raise"
    /\ \A i \in 1..Len(k_reads) : k_reads[i].failed =>
          /\ k_finds[i] = NoneVal
          /\ k_pc = "done" =>
                \/ i < Len(k_reads)
                \/ (i = k_max_retries /\ k_result = NoneVal /\ k_outcome = "return")

\* the first read failed although the session cookie was there; the second
\* read found it
C20_Witness == /\ k_pc = "done"
               /\ Len(k_reads) = 2
               /\ k_reads[1].failed
               /\ \E i \in 1..Len(k_reads[1].jar) : IsSessionFor(k_reads[1].jar[i], k_target)
               /\ k_result = V1

-----------------------------------------------------------------------------
(* Properties of the nodriver OAuth flow and of login() *)

\* the OAuth attempt of login() is under way
OAuthAttempt == l_pc = "oauth"

\* the flow is past the cookie extraction and goes on with a credential
PastCookieExtraction == o_pc \in {"user_id", "init_client", "verify"}

\* C21: when no search strategy finds the login button the flow returns False,
\* no exception leaves the driver, which returns False too, and no later step
\* has happened: no tab record, no click on the button, no cookie extraction.
C21_NoControlEndsInFailure ==
    o_why = "no_control" =>
        /\ o_ret = "False"
        /\ n_ret \in {"none", "False"}
        /\ l_oauth \in {"skipped", "False"}
        /\ ~Happened(a_trace, "record_tab_count")
        /\ ~Happened(a_trace, "click")
        /\ ~Happened(a_trace, "detect_new_tab")
        /\ ~Happened(a_trace, "get_session_cookie")

C21_Witness ==
    /\ o_why = "no_control"
    /\ n_pc = "done"
    /\ n_ret = "False"
    /\ l_oauth = "False"

\* C22: when the cookie extraction, the second one after switching back
\* included, yields no credential, the flow returns False and the HTTP client
\* is not set up in that attempt; the flow only goes on past the extraction
\* with a credential.
C22_NoCookieEndsInFailure ==
    /\ (OAuthAttempt /\ o_why = "no_cookie") =>
           /\ o_ret = "False"
           /\ a_client = "none"
           /\ ~Happened(a_trace, "init_http_client")
    /\ (OAuthAttempt /\ PastCookieExtraction) => PyTruthy(a_session_cookie)
    /\ (OAuthAttempt /\ a_client = "set") => PyTruthy(a_session_cookie)

\* the second extraction, after the switch back, found nothing either
C22_Witness ==
    /\ OAuthAttempt
    /\ o_why = "no_cookie"
    /\ o_pc = "returned"
    /\ Len(SelectSeq(a_trace, LAMBDA e : e = "get_session_cookie")) = 2
    /\ Happened(a_trace, "switch_to_tab")

\* the flow has returned after a cookie extraction that gave a credential
ReturnedWithCredential ==
    /\ OAuthAttempt
    /\ o_pc = "returned"
    /\ PyTruthy(a_session_cookie)

\* C23 as stated: whenever the cookie extraction obtains a credential the
\* flow ends in success with the credential handed to the client.
C23_CredentialMeansSuccess ==
    ReturnedWithCredential => (o_ret = "True" /\ a_client = "set")

\* C23 amended: whenever the cookie extraction obtains a credential, the
\* credential is handed to the HTTP client and the flow returns the result of
\* _verify_login: True when the login is verified, False when it is not; the
\* driver reports what the flow returned.
C23_CredentialIsVerified ==
    /\ ReturnedWithCredential =>
           /\ a_client = "set"
           /\ Happened(a_trace, "init_http_client")
           /\ \/ o_ret = "True" /\ o_why = "none"
              \/ o_ret = "False" /\ o_why = "verify"
    /\ (OAuthAttempt /\ o_pc = "verify") => a_client = "set"
    /\ (OAuthAttempt /\ n_pc = "done") => (n_ret = "True" <=> o_ret = "True")

\* a credential was obtained and handed over, the verification failed
C23_Witness ==
    /\ ReturnedWithCredential
    /\ a_client = "set"
    /\ o_ret = "False"
    /\ o_why = "verify"
    /\ n_pc = "done"

\* C24: an exception that leaves the flow never leaves the driver:
\* _login_via_linuxdo_nodriver returns False, and login() takes the OAuth
\* attempt as failed and goes on to the cookie fallback.
C24_ExceptionStaysInDriver ==
    o_ret = "raise" =>
        /\ n_ret \in {"none", "False"}
        /\ (n_pc = "done" => n_ret = "False")
        /\ l_oauth \in {"skipped", "False"}
        /\ (l_pc \in {"fallback", "done"} => l_oauth = "False")
        /\ a_login_method # "LinuxDO OAuth"

\* the cookie read raised, the driver returned False, login() is at the fallback
C24_Witness ==
    /\ o_ret = "raise"
    /\ o_exc = "cookie1"
    /\ n_pc = "done"
    /\ n_ret = "False"
    /\ l_pc = "fallback"
    /\ l_oauth = "False"

\* C25: when the flow did not succeed, close() of the browser manager has been
\* called by the time _login_via_linuxdo_nodriver returns, and an exception of
\* close() does not leave it; when the flow succeeded the browser is left open.
C25_CloseUnlessSuccess ==
    n_pc = "done" =>
        /\ n_ret \in {"True", "False"}
        /\ (o_ret # "True") => (Happened(a_trace, "close") /\ n_ret = "False")
        /\ (o_ret = "True") => (~Happened(a_trace, "close") /\ a_browser = "open"
                                /\ n_oauth_success)

\* close() itself raised after a flow that raised: the driver still returned False
C25_Witness ==
    /\ n_pc = "done"
    /\ o_ret = "raise"
    /\ Happened(a_trace, "close")
    /\ a_browser = "open"
    /\ n_ret = "False"

\* both credentials of the OAuth login are set
OAuthConfigured == PyTruthy(a_cfg.username) /\ PyTruthy(a_cfg.password)

\* C26: login() tries OAuth first and only with a user name and a password;
\* it tries the cookie fallback only when OAuth was not tried, returned False
\* or raised; it returns True exactly when one of the two succeeded, with
\* _login_method naming it, and False otherwise.
C26_LoginOrder ==
    /\ Happened(a_trace, "oauth") => OAuthConfigured
    /\ (l_pc \notin {"start", "init_browser"} /\ OAuthConfigured)
           => FirstAt(a_trace, "oauth") = 1
    /\ Happened(a_trace, "cookie") =>
           /\ l_oauth \in {"skipped", "False", "raise"}
           /\ PyTruthy(a_cfg.fallback)
           /\ (l_oauth = "skipped" <=> ~OAuthConfigured)
           /\ FirstAt(a_trace, "oauth") < FirstAt(a_trace, "cookie")
    /\ l_pc = "done" =>
           /\ l_ret \in {"True", "False"}
           /\ (l_ret = "True" <=> a_login_method \in {"LinuxDO OAuth", "Cookie"})
           /\ (a_login_method = "LinuxDO OAuth" <=> l_oauth = "True")
           /\ (a_login_method = "LinuxDO OAuth" <=> n_ret = "True")
           /\ (a_login_method = "Cookie" =>
                   (Happened(a_trace, "cookie") /\ a_client = "set"
                    /\ PyTruthy(a_session_cookie)))
           /\ (l_oauth # "True" /\ PyTruthy(a_cfg.fallback))
                  => Happened(a_trace, "cookie")
           /\ (l_oauth # "True" /\ ~PyTruthy(a_cfg.fallback)) => l_ret = "False"
    /\ l_pc # "done" => (l_ret = "none" /\ a_login_method = "unknown")

\* OAuth was tried and returned False, the cookie fallback succeeded
C26_Witness ==
    /\ l_pc = "done"
    /\ l_oauth = "False"
    /\ l_ret = "True"
    /\ a_login_method = "Cookie"
    /\ FirstAt(a_trace, "oauth") = 1
    /\ Happened(a_trace, "cookie")

\* C27: every run of the OAuth flow ends: once _login_via_linuxdo_nodriver is
\* called it returns True or False, whatever the browser does.
C27_FlowTerminates ==
    (n_pc = "call") ~> (n_pc = "done" /\ n_ret \in {"True", "False"})

\* every wait timed out and the run still ended
C27_Witness ==
    /\ n_pc = "done"
    /\ n_ret \in {"True", "False"}
    /\ o_timeouts = {"cloudflare", "new_tab", "to_provider", "redirect"}

\* C28: in a run that clicks the provider button record_tab_count is called
\* before the click and detect_new_tab only after it, and the recorded tabs
\* are the tabs the browser had at the click.
C28_RecordBeforeClick ==
    /\ Happened(a_trace, "click") =>
           /\ 0 < FirstAt(a_trace, "record_tab_count")
           /\ FirstAt(a_trace, "record_tab_count") < FirstAt(a_trace, "click")
    /\ Happened(a_trace, "detect_new_tab") =>
           /\ 0 < FirstAt(a_trace, "click")
           /\ FirstAt(a_trace, "click") < FirstAt(a_trace, "detect_new_tab")
    /\ (Happened(a_trace, "click") /\ o_pc \notin {"idle", "returned"})
           => t_initial_tabs = o_click_tabs

\* the provider's tab came after the click and is found as the new tab
C28_Witness ==
    /\ o_pc = "switch"
    /\ Len(o_click_tabs) >= 1
    /\ t_initial_tabs = o_click_tabs
    /\ Len(t_tabs) > Len(o_click_tabs)
    /\ t_found.op = "detect"

\* the causes the claim gives for a failed flow
StatedCauses == {"no_control", "no_cookie", "exception"}

FlowFailed == o_pc = "returned" /\ o_ret # "True"

\* a step in which a wait times out
TimeoutStep == o_timeouts' # o_timeouts

\* C29 as stated: the flow fails only when the login control is not found, the
\* session cookie is not found, or an exception is raised.
C29_FailsOnlyOnStatedCauses ==
    FlowFailed => o_why \in StatedCauses

\* C29 amended: no timeout of a wait ends the flow: the step in which a wait
\* times out goes on to the next step; the flow fails only when the login
\* control is not found, the session cookie is not found, the login is not
\* verified with the cookie, or an exception is raised.
C29_TimeoutsAreNotFatal ==
    /\ [][TimeoutStep => (o_pc' \notin {"returned", o_pc} /\ o_ret' = "none")]_vars
    /\ [](FlowFailed => o_why \in StatedCauses \cup {"verify"})

\* every wait timed out and the flow returned True
C29_Witness ==
    /\ o_pc = "returned"
    /\ o_ret = "True"
    /\ o_timeouts = {"cloudflare", "new_tab", "to_provider", "redirect"}

\* C30: the redirect wait is left, before its timeout, only on a url that
\* classify_oauth_url takes as OAUTH_COMPLETE.
C30_RedirectWaitEndsOnComplete ==
    o_redirect.how = "match" => o_redirect.type = "OAUTH_COMPLETE"

-----------------------------------------------------------------------------
(* Properties of the url predicates and further properties of the classifier *)

AuthorizationAsked == c_auth \in {"True", "False"}

\* C35: is_authorization_url(url) is True exactly when url is a non-empty
\* string that holds "authorize" and does not hold "linux.do", in any letter
\* case; for a url with both, and for an empty url or None, it is False.
C35_AuthorizationUrl ==
    AuthorizationAsked =>
        /\ c_auth = "True" <=> /\ PyIsStr(c_url)
                               /\ c_url.s # <<>>
                               /\ UrlHas(KW_authorize)
                               /\ ~UrlHas(KW_linuxdo)
        /\ (UrlHas(KW_authorize) /\ UrlHas(KW_linuxdo)) => c_auth = "False"
        /\ c_url \in {NoneVal, Str(<<>>)} => c_auth = "False"

C35_Witness == /\ AuthorizationAsked
               /\ UrlHas(KW_authorize)
               /\ UrlHas(KW_linuxdo)
               /\ ~str_in(KW_linuxdo, c_url.s)
               /\ c_auth = "False"

\* str.upper() and str.swapcase() on the letters the inputs use
UpperChar(c) ==
    CASE c = "a" -> "A" [] c = "b" -> "B" [] c = "c" -> "C" [] c = "d" -> "D" [] c = "e" -> "E"
      [] c = "g" -> "G" [] c = "h" -> "H" [] c = "i" -> "I" [] c = "l" -> "L"
      [] c = "m" -> "M" [] c = "n" -> "N" [] c = "o" -> "O" [] c = "p" -> "P"
      [] c = "r" -> "R" [] c = "t" -> "T"
      [] c = "u" -> "U" [] c = "x" -> "X" [] c = "z" -> "Z"
      [] OTHER -> c

SwapChar(c) == IF LowerChar(c) # c THEN LowerChar(c) ELSE UpperChar(c)

\* s with the case of its letters changed: all lower, all upper, all
\* swapped, or one letter swapped
CaseVariants(s) ==
    {str_lower(s), [i \in 1..Len(s) |-> UpperChar(s[i])], [i \in 1..Len(s) |-> SwapChar(s[i])]}
        \cup {[s EXCEPT ![i] = SwapChar(s[i])] : i \in 1..Len(s)}

Paddings == {<<>>, <<" ">>, <<"\t">>, <<"\n", " ">>}

\* s with whitespace added around it
PaddedVariants(s) == {l \o s \o r : l \in Paddings, r \in Paddings}

TargetHasKeyword ==
    /\ PyIsStr(c_target)
    /\ \/ str_in(KW_login, TargetKey)
       \/ str_in(KW_authorize, TargetKey)
       \/ str_in(KW_linuxdo, TargetKey)

\* C39: with a target domain that itself holds "login", "authorize" or
\* "linux.do", no url that holds the target domain is classified
\* OAUTH_COMPLETE.
C39_KeywordTargetNeverComplete ==
    (Called /\ TargetHasKeyword /\ UrlHas(TargetKey)) => c_result # "OAUTH_COMPLETE"

C39_Witness == /\ Called
               /\ TargetHasKeyword
               /\ UrlHas(TargetKey)
               /\ str_in(KW_authorize, TargetKey)
               /\ c_result = "AUTHORIZATION"

RelatedAsked == c_related \in {"True", "False"}

\* C37: a url that classify_oauth_url labels LINUXDO_LOGIN or AUTHORIZATION,
\* for any target domain, is accepted by is_oauth_related_url.
C37_PhasesAreRelated ==
    RelatedAsked =>
        \A target \in TargetInputs :
            classify_oauth_url(c_url, target) \in {"LINUXDO_LOGIN", "AUTHORIZATION"}
                => c_related = "True"

C37_Witness == /\ RelatedAsked
               /\ classify_oauth_url(c_url, NoneVal) = "AUTHORIZATION"
               /\ ~str_in(KW_authorize, c_url.s)
               /\ c_related = "True"

RuntimeErrorRaised(outcome) == outcome.kind = "raise" /\ outcome.type = "RuntimeError"

-----------------------------------------------------------------------------
(* Further properties of the OAuth flow *)

Count(trace, e) == Len(SelectSeq(trace, LAMBDA x : x = e))

CookieCalls == Count(a_trace, "get_session_cookie")

\* C31: the flow goes back to the original tab for the cookie only when the
\* first get_session_cookie returned nothing and the flow's tab is not the
\* original tab, and only once: get_session_cookie is called at most twice
\* (at most 2 x 3 cookie reads), and once when the driver never switched tabs.
C31_SwitchBackOnce ==
    /\ CookieCalls <= 2
    /\ o_reads <= 2 * CookieCallRetries
    /\ o_pc \in {"switch_back", "cookie2"} =>
          /\ a_session_cookie = NoneVal
          /\ o_tab # o_original_tab
          /\ CookieCalls = IF o_pc = "cookie2" /\ o_count > 0 THEN 2 ELSE 1
    /\ ~Happened(a_trace, "switch_to_tab") => CookieCalls <= 1
    /\ (PastCookieExtraction /\ o_tab = o_original_tab) => CookieCalls = 1

C31_Witness == /\ PastCookieExtraction
               /\ CookieCalls = 2
               /\ o_reads = 2 * CookieCallRetries
               /\ a_session_cookie = SessionValue

\* The parts of C32 on the retry engine, as steps: every step taken while the
\* form is being submitted is one of at most 3 attempts and leads to the next
\* attempt or to the re-classification, and the re-classification leads to
\* the authorization click or to the redirect wait.
SubmitBoundedAndNotFatal ==
    [][ /\ o_pc = "submit" => /\ o_count < SubmitPolicy.max_retries
                              /\ o_pc' \in {"submit", "after_submit"}
        /\ o_pc = "after_submit" =>
              o_pc' \in {"after_submit", "authorize_click", "redirect_wait"} ]_vars

\* C32: on the login form the user name is filled before the password, the
\* form is submitted only after both fills, the submit is attempted at most
\* 3 times, and the flow has not ended while or after the form is submitted.
C32_FillBothThenSubmit ==
    /\ o_pc = "fill_password" => o_username_input = "filled"
    /\ o_pc = "submit" => /\ o_username_input = "filled"
                          /\ o_password_input = "filled"
                          /\ o_count < SubmitPolicy.max_retries
    /\ o_pc \in {"submit", "after_submit"} => o_ret = "none"

AfterTransition ==
    o_pc \in {"wait_provider", "cloudflare2", "read_url", "authorize_page", "reread_url",
              "login_form", "fill_password", "submit", "after_submit", "authorize_click",
              "redirect_wait", "redirect_timeout", "cookie1", "switch_back", "cookie2",
              "user_id", "init_client", "verify"}

ActiveTabByPrecedence ==
    IF o_new_tab # 0 THEN o_new_tab
    ELSE IF o_oauth_tab # 0 /\ o_oauth_tab # o_original_tab THEN o_oauth_tab
    ELSE o_original_tab

\* C34: after the tab transition the flow's tab is the tab detect_new_tab
\* returned if it returned one, otherwise the tab find_oauth_tab returned if
\* it is not None and not the current tab, otherwise the original tab; the
\* url of the same tab is polled only in the last case.
C34_ActiveTabPrecedence ==
    /\ AfterTransition => o_tab = ActiveTabByPrecedence
    /\ o_pc = "wait_provider" =>
          /\ o_new_tab = 0
          /\ o_oauth_tab \in {0, o_original_tab}
          /\ o_tab = o_original_tab

C34_Witness == /\ AfterTransition
               /\ o_new_tab = 0
               /\ o_oauth_tab \notin {0, o_original_tab}
               /\ o_tab = o_oauth_tab

=============================================================================
